---- MODULE Spec2Model ----
(***************************************************************************)
(* A model of reversible.py: the invertible transform layer                *)
(* (ReversibleBlock, SubsampleSplitter, invert), the integer partition     *)
(* sizes_from_weights, the batch constructors and the training step.       *)
(*                                                                         *)
(* The tensors of the transform layer hold small integers, on which float   *)
(* arithmetic (+, -, negation, abs) is exact.  The fractional quantities   *)
(* of sizes_from_weights, OptimizerUnlabelled, the cdfs and the            *)
(* interpolation grid are floating point numbers, rounded as numpy and     *)
(* torch round them.                                                       *)
(***************************************************************************)
EXTENDS Integers, Sequences, FiniteSets, TLC

VARIABLES
    rpc,            \* reversible part: position of the driver
    pipeline,       \* the feature model: the modules of its nn.Sequential
    instance_of,    \* per module the first position that holds the same object
    x,              \* the tensor given to forward / to invert
    features,       \* result of the first call
    rec,            \* result of the second call
    spc,            \* sizes_from_weights: position in the function
    size,           \* requested total
    weights,        \* weights argument (sequence of integers)
    rounded,        \* rounded sizes
    fractional_sizes, \* normed_weights * size, floats of dtype
    diff_with_half, \* (fractional_sizes % 1) - 0.5, floats of dtype
    n_total,        \* running total
    n_iter,         \* number of correction iterations made so far
    dtype,          \* dtype of the weights array: Float32 or Float64
    sfw_exc,        \* exception raised by sizes_from_weights, or "none"
    bpc,            \* batch construction: position of the driver
    n_trials,       \* argument of get_exact_size_batches
    targets,        \* argument of get_batches_equal_classes
    batch_size,     \* argument of both
    batches,        \* the returned batches
    b_exc,          \* exception raised by the batch constructor, or "none"
    tpc,            \* training: which step function ran last
    weights_per_cluster, \* mixture weights, each a fraction <<num, den>>
    stds_per_dim,   \* mixture stds, clusters x dims, in units of 1e-5
    after_opt,      \* the parameters as the optimizer step left them
    events,         \* what the last training step did, in order
    dpc,            \* directions: which loss function was called
    directions,     \* the directions argument: rows of integers, <<>> for None
    means_per_dim,  \* means of the two clusters, clusters x dims
    projected_onto, \* the direction matrices the call projected onto
    d_exc,          \* the exception the call raised, or "none"
    lpc,            \* per-class loss: position in the function
    labeled_targets, \* targets of the labeled samples
    n_unlabeled,    \* number of unlabeled samples, 0 for None
    n_sorted,       \* len(sorted_samples_batch) of the analytical cdf loss
    all_targets,    \* labeled targets and Bernoulli targets of the unlabeled
    i_clust,        \* loop variable i_cluster of transport_loss_per_class
    n_samples,      \* samples of the current cluster
    empirical_cdf,  \* the last empirical cdf built, fractions <<num, den>>
    loss_finite,    \* the loss summed so far is a finite number
    l_exc,          \* exception raised by the loss, or "none"
    mpc,            \* sample_mixture_gaussian: position of the driver
    sizes_per_cluster, \* its sizes argument
    all_samples,    \* its returned rows
    m_exc,          \* exception raised by sample_mixture_gaussian, or "none"
    upc,            \* OptimizerUnlabelled: "constructed", then "stepped"
    unlabeled_cluster_weights, \* one weight per unlabeled example, float32
    grad_hist_unlabeled, \* per example <<column 0, column 1>>, float32
    lr,             \* learning rate of the optimizer
    alpha,          \* moving-average factor of the optimizer, a float64
    always_accumulate, \* flag of the optimizer
    unl_grad,       \* unlabeled_cluster_weights.grad at the last step
    unl_before,     \* weights and history as they were before the last step
    unl_steps,      \* number of steps made
    cpc,            \* multi_directions_gaussian_cdfs: "called", then "done"
    cdf_x,          \* its argument x: points of one direction
    cdf_means,      \* its argument means, one per cluster
    cdf_stds,       \* its argument stds, one per cluster
    cdf_weights,    \* its argument weights, one per cluster
    cdf,            \* its result, one float32 per point
    ppc,            \* position in projected_samples_mixture_sorted
    p_n_samples,    \* its argument n_samples
    linspace_formula,  \* the formula of th.linspace in the build of torch
    backprop_to_cluster_weights,   \* its argument of that name
    weights_per_sample,   \* its local of that name, None being <<>>
    i_low,          \* its local i_low after the clamp, one per grid point
    i_high,         \* its local i_high after the clamp
    weights_high,   \* its local weights_high, float32
    p_exc,          \* the exception it raised, or "none"
    epc,            \* position in sampled_energy_transport_loss
    n_projected,    \* len(projected_samples)
    rows_a,         \* len(sorted_samples_a)
    rows_b,         \* len(sorted_samples_b)
    rows_cluster_a, \* len(sorted_samples_cluster_a)
    rows_cluster_b, \* len(sorted_samples_cluster_b)
    diff_weights_a, \* diff_weights_a, None being <<>>
    diff_weights_b, \* diff_weights_b
    e_exc           \* the exception it raised, or "none"

revVars == <<rpc, pipeline, instance_of, x, features, rec>>
sfwVars == <<spc, size, dtype, weights, fractional_sizes, rounded, diff_with_half,
             n_total, n_iter,
             sfw_exc>>
batchVars == <<bpc, n_trials, targets, batch_size, batches, b_exc>>
trainVars == <<tpc, weights_per_cluster, stds_per_dim, after_opt, events>>
dirVars == <<dpc, directions, means_per_dim, projected_onto, d_exc>>
lossVars == <<lpc, labeled_targets, n_unlabeled, n_sorted, all_targets, i_clust,
              n_samples, empirical_cdf, loss_finite, l_exc>>
mixVars == <<mpc, sizes_per_cluster, all_samples, m_exc>>
restVars == <<dirVars, lossVars, mixVars>>
unlVars == <<upc, unlabeled_cluster_weights, grad_hist_unlabeled, lr, alpha,
             always_accumulate, unl_grad, unl_before, unl_steps>>
cdfVars == <<cpc, cdf_x, cdf_means, cdf_stds, cdf_weights, cdf>>
psmsVars == <<ppc, p_n_samples, linspace_formula, backprop_to_cluster_weights,
              weights_per_sample,
              i_low, i_high, weights_high, p_exc>>
energyVars == <<epc, n_projected, rows_a, rows_b, rows_cluster_a, rows_cluster_b,
                diff_weights_a, diff_weights_b, e_exc>>
moreVars == <<unlVars, cdfVars, psmsVars, energyVars>>
vars == <<revVars, sfwVars, batchVars, trainVars, restVars, moreVars>>

----------------------------------------------------------------------------
(* Bounds of the model *)

MaxStages == 2
MaxChans == 6
MaxTotal == 10
MaxClusters == 4
MaxTrials == 4
MaxBatchSize == 3

\* one stride is 1 (no subsampling) or 2; spatial extents include
\* multiples and non-multiples of the strides
BatchVals == {1}
StrideVals == {1, 2}
HeightVals == {1, 2, 3, 4}
WidthVals == {1, 2}
\* the values of a cluster weight; their quotients by the sum of the weights
\* include numbers that no float holds exactly
WeightVals == {0, 1, 2, 4}

----------------------------------------------------------------------------
(* A dtype is the number of bits of its mantissa. *)
Float32 == 24
Float64 == 53

----------------------------------------------------------------------------
(* The parts of the program are exercised one at a time; the variables of  *)
(* a part that is not exercised rest at these values.                      *)

RevIdle ==
    /\ rpc = "idle" /\ pipeline = <<>> /\ instance_of = <<>>
    /\ x = <<>> /\ features = <<>> /\ rec = <<>>

SfwIdle ==
    /\ spc = "idle" /\ size = 0 /\ dtype = Float32 /\ weights = <<>> /\ rounded = <<>>
    /\ fractional_sizes = <<>> /\ diff_with_half = <<>>
    /\ n_total = 0 /\ n_iter = 0 /\ sfw_exc = "none"

BatchIdle ==
    /\ bpc = "idle" /\ n_trials = 0 /\ targets = <<>> /\ batch_size = 0
    /\ batches = <<>> /\ b_exc = "none"

TrainIdle ==
    /\ tpc = "idle" /\ weights_per_cluster = <<>> /\ stds_per_dim = <<>>
    /\ after_opt = <<>> /\ events = <<>>

DirIdle ==
    /\ dpc = "idle" /\ directions = <<>> /\ means_per_dim = <<>>
    /\ projected_onto = <<>> /\ d_exc = "none"

LossIdle ==
    /\ lpc = "idle" /\ labeled_targets = <<>> /\ n_unlabeled = 0 /\ n_sorted = 0
    /\ all_targets = <<>> /\ i_clust = 0 /\ n_samples = 0
    /\ empirical_cdf = <<>> /\ loss_finite = TRUE /\ l_exc = "none"

MixIdle ==
    /\ mpc = "idle" /\ sizes_per_cluster = <<>> /\ all_samples = <<>>
    /\ m_exc = "none"

RestIdle == DirIdle /\ LossIdle /\ MixIdle

UnlIdle ==
    /\ upc = "idle" /\ unlabeled_cluster_weights = <<>>
    /\ grad_hist_unlabeled = <<>> /\ lr = 0 /\ alpha = <<0, 1>>
    /\ always_accumulate = FALSE /\ unl_grad = <<>> /\ unl_before = <<>>
    /\ unl_steps = 0

CdfIdle ==
    /\ cpc = "idle" /\ cdf_x = <<>> /\ cdf_means = <<>> /\ cdf_stds = <<>>
    /\ cdf_weights = <<>> /\ cdf = <<>>

PsmsIdle ==
    /\ ppc = "idle" /\ p_n_samples = 0 /\ linspace_formula = "step"
    /\ backprop_to_cluster_weights = FALSE
    /\ weights_per_sample = <<>> /\ i_low = <<>> /\ i_high = <<>>
    /\ weights_high = <<>> /\ p_exc = "none"

EnergyIdle ==
    /\ epc = "idle" /\ n_projected = 0 /\ rows_a = 0 /\ rows_b = 0
    /\ rows_cluster_a = 0 /\ rows_cluster_b = 0
    /\ diff_weights_a = <<>> /\ diff_weights_b = <<>> /\ e_exc = "none"

MoreIdle == UnlIdle /\ CdfIdle /\ PsmsIdle /\ EnergyIdle

----------------------------------------------------------------------------
(* Generic helpers *)

Min(a, b) == IF a < b THEN a ELSE b
Max(a, b) == IF a > b THEN a ELSE b
Abs(a) == IF a < 0 THEN -a ELSE a

RECURSIVE SumSeq(_)
SumSeq(s) == IF s = <<>> THEN 0 ELSE Head(s) + SumSeq(Tail(s))

\* all sequences over S with length in lo..hi
SeqsOf(S, lo, hi) == UNION {[1..k -> S] : k \in lo..hi}

----------------------------------------------------------------------------
(* Floating point numbers, as numpy and torch compute with them: float32 is *)
(* the dtype of a torch.FloatTensor and of the array var_to_np makes of     *)
(* one, float64 the dtype of a Python float and of a numpy array of them.   *)
(* Every operation rounds its exact result to the nearest float of its      *)
(* dtype, ties to even.  Subnormal numbers are not kept: a result below the *)
(* smallest normal float is a zero.  The operations are functions, so that  *)
(* an argument is a value when the body reads it.                           *)

Pow2[n \in Int] == IF n <= 0 THEN 1 ELSE 2 ^ n

\* the number of bits of 0 <= m < 2^31
BitLen[m \in Nat] ==
    IF m = 0 THEN 0
    ELSE CHOOSE k \in 1..31 : Pow2[k - 1] <= m /\ (k = 31 \/ m < Pow2[k])

\* A natural number of any size is the sequence of its digits to the base
\* 2^14, the lowest digit first and the highest digit not 0.
Base == 2 ^ 14
Big == Seq(Nat)

Dig(a, i) == IF i <= Len(a) THEN a[i] ELSE 0

BTrim[d \in Big] ==
    IF d # <<>> /\ d[Len(d)] = 0 THEN BTrim[SubSeq(d, 1, Len(d) - 1)] ELSE d

\* the digits of c + d[1] + d[2] * Base + ..., the d[i] being any integers
BCarry[d \in Seq(Int), c \in Int] ==
    IF d = <<>> THEN (IF c = 0 THEN <<>> ELSE <<c % Base>> \o BCarry[<<>>, c \div Base])
    ELSE <<(d[1] + c) % Base>> \o BCarry[Tail(d), (d[1] + c) \div Base]

BInt[n \in Nat] == BCarry[<<>>, n]

\* the value of a number below 2^31
BToInt[a \in Big] == IF a = <<>> THEN 0 ELSE a[1] + Base * BToInt[Tail(a)]

BAdd[a \in Big, b \in Big] ==
    BCarry[[i \in 1..Max(Len(a), Len(b)) |-> Dig(a, i) + Dig(b, i)], 0]

\* a - b for a >= b
BSub[a \in Big, b \in Big] ==
    BTrim[BCarry[[i \in 1..Max(Len(a), Len(b)) |-> Dig(a, i) - Dig(b, i)], 0]]

\* the sum of the a[i] * b[k + 1 - i] from i on: column k of a product
BColumn[a \in Big, b \in Big, k \in Nat, i \in Nat] ==
    IF i > Min(Len(a), k) THEN 0
    ELSE Dig(a, i) * Dig(b, k + 1 - i) + BColumn[a, b, k, i + 1]

\* a * b for a, b < 2^56
BMul[a \in Big, b \in Big] ==
    IF a = <<>> \/ b = <<>> THEN <<>>
    ELSE BTrim[BCarry[[k \in 1..(Len(a) + Len(b) - 1) |-> BColumn[a, b, k, 1]], 0]]

\* a * 2^k
BShl[a \in Big, k \in Nat] ==
    IF a = <<>> THEN <<>>
    ELSE [i \in 1..(k \div 14) |-> 0]
         \o BCarry[[i \in 1..Len(a) |-> a[i] * Pow2[k % 14]], 0]

\* a \div 2^k
BShr[a \in Big, k \in Nat] ==
    IF k \div 14 >= Len(a) THEN <<>>
    ELSE LET d == SubSeq(a, k \div 14 + 1, Len(a))
             r == k % 14
         IN BTrim[[i \in 1..Len(d) |->
                     d[i] \div Pow2[r] + (Dig(d, i + 1) % Pow2[r]) * Pow2[14 - r]]]

\* a % 2^k
BLow[a \in Big, k \in Nat] ==
    BTrim[[i \in 1..Min(Len(a), k \div 14 + 1) |->
             IF i <= k \div 14 THEN a[i] ELSE a[i] % Pow2[k % 14]]]

BBitLen[a \in Big] ==
    IF a = <<>> THEN 0 ELSE 14 * (Len(a) - 1) + BitLen[a[Len(a)]]

\* bit k of a, bit 0 being the lowest
BBit(a, k) == (Dig(a, k \div 14 + 1) \div Pow2[k % 14]) % 2

\* the number of zero bits below the lowest one bit of a # 0
BZeros[a \in Big] ==
    IF a[1] = 0 THEN 14 + BZeros[Tail(a)]
    ELSE CHOOSE k \in 0..13 : a[1] % Pow2[k + 1] # 0 /\ a[1] % Pow2[k] = 0

\* -1, 0, 1 as a <, =, > b, the digits above i being equal
BCmpFrom[a \in Big, b \in Big, i \in Nat] ==
    IF i = 0 THEN 0
    ELSE IF a[i] < b[i] THEN -1
    ELSE IF a[i] > b[i] THEN 1
    ELSE BCmpFrom[a, b, i - 1]

BCmp[a \in Big, b \in Big] ==
    IF Len(a) < Len(b) THEN -1
    ELSE IF Len(a) > Len(b) THEN 1
    ELSE BCmpFrom[a, b, Len(a)]

\* a \div n and a % n for n < 2^17, from digit i of a down, rem being the
\* rest and q the digits of the quotient so far
BDivShort[a \in Big, n \in Nat, i \in Nat, rem \in Nat, q \in Big] ==
    IF i = 0 THEN <<BTrim[q], rem # 0>>
    ELSE BDivShort[a, n, i - 1, (rem * Base + a[i]) % n,
                   <<(rem * Base + a[i]) \div n>> \o q]

\* one step of a long division by b: <<the next bit of the quotient, the
\* next rest>>, r2 being twice the rest plus the next bit of the dividend
BDivStep[b \in Big, r2 \in Big] ==
    IF BCmp[r2, b] >= 0 THEN <<1, BSub[r2, b]>> ELSE <<0, r2>>

\* a \div b and a % b, from bit k - 1 of a down, rem being the rest, d the
\* bits of the current digit of the quotient and q its higher digits
BDivLong[a \in Big, b \in Big, k \in Nat, rem \in Big, d \in Nat, q \in Big] ==
    IF k = 0 THEN <<BTrim[q], rem # <<>>>>
    ELSE LET step == BDivStep[b, BCarry[[i \in 1..Len(rem) |-> 2 * rem[i]],
                                        BBit(a, k - 1)]]
         IN BDivLong[a, b, k - 1, step[2],
                     IF (k - 1) % 14 = 0 THEN 0 ELSE 2 * d + step[1],
                     IF (k - 1) % 14 = 0 THEN <<2 * d + step[1]>> \o q ELSE q]

\* <<a \div b, whether a % b # 0>> for b # 0
BDiv[a \in Big, b \in Big] ==
    IF Len(b) = 1 \/ (Len(b) = 2 /\ b[2] < 8)
    THEN BDivShort[a, BToInt[b], Len(a), 0, <<>>]
    ELSE BDivLong[a, b, 14 * Len(a), <<>>, 0, <<>>]

\* A float is <<s, M, e>> and stands for (-1)^s * M * 2^e, M an odd number,
\* or <<s, <<>>, 0>> for a zero, <<s, <<>>, 1>> for an infinity and
\* <<0, <<>>, 2>> for NaN.  A float of dtype p keeps p bits of M.
Float == {0, 1} \X Big \X Int
Dtype == {Float32, Float64}

FZero == <<0, <<>>, 0>>
FHalf == <<0, <<1>>, -1>>
FOne == <<0, <<1>>, 0>>
FNaN == <<0, <<>>, 2>>
FInf(s) == <<s, <<>>, 1>>
FIsNaN(a) == a[2] = <<>> /\ a[3] = 2
FIsInf(a) == a[2] = <<>> /\ a[3] = 1
FIsZero(a) == a[2] = <<>> /\ a[3] = 0
FIsFinite(a) == ~FIsNaN(a) /\ ~FIsInf(a)

\* the position above the highest bit of a finite a # 0
FTop(a) == a[3] + BBitLen[a[2]]

\* M * 2^e with M made odd, when inside the range of the normal floats of p
\* bits: an infinity above it, a zero below it
FOdd[p \in Dtype, s \in {0, 1}, M \in Big, e \in Int] ==
    IF e + BBitLen[M] > (IF p = Float32 THEN 128 ELSE 1024) THEN FInf(s)
    ELSE IF e + BBitLen[M] < (IF p = Float32 THEN -125 ELSE -1021) THEN <<s, <<>>, 0>>
    ELSE <<s, BShr[M, BZeros[M]], e + BZeros[M]>>

\* the float of p bits nearest to (-1)^s * (M + d) * 2^e, where 0 <= d < 1
\* and d > 0 iff sticky: round to nearest, ties to even
FRoundTo[p \in Dtype, s \in {0, 1}, M \in Big, e \in Int, sticky \in BOOLEAN,
         n \in Int] ==
    IF n <= 0 THEN FOdd[p, s, M, e]
    ELSE LET up == /\ BBit(M, n - 1) = 1
                   /\ sticky \/ BLow[M, n - 1] # <<>> \/ BBit(M, n) = 1
         IN FOdd[p, s, BAdd[BShr[M, n], IF up THEN <<1>> ELSE <<>>], e + n]

FRound[p \in Dtype, s \in {0, 1}, M \in Big, e \in Int, sticky \in BOOLEAN] ==
    IF M = <<>> THEN <<s, <<>>, 0>>
    ELSE FRoundTo[p, s, M, e, sticky, BBitLen[M] - p]

\* the float of an integer
FInt[p \in Dtype, n \in Int] ==
    FRound[p, IF n < 0 THEN 1 ELSE 0, BInt[Abs(n)], 0, FALSE]

\* a float of more bits as a float of p bits
FCast[p \in Dtype, a \in Float] ==
    IF a[2] = <<>> THEN a ELSE FRound[p, a[1], a[2], a[3], FALSE]

FNeg[a \in Float] == IF FIsNaN(a) THEN a ELSE <<1 - a[1], a[2], a[3]>>
FAbs[a \in Float] == IF FIsNaN(a) THEN a ELSE <<0, a[2], a[3]>>

\* |a| < |b| for a, b not NaN
FMagLess[a \in Float, b \in Float] ==
    IF FIsInf(a) THEN FALSE
    ELSE IF FIsInf(b) THEN TRUE
    ELSE IF FIsZero(b) THEN FALSE
    ELSE IF FIsZero(a) THEN TRUE
    ELSE IF FTop(a) # FTop(b) THEN FTop(a) < FTop(b)
    ELSE BCmp[BShl[a[2], a[3] - Min(a[3], b[3])],
              BShl[b[2], b[3] - Min(a[3], b[3])]] < 0

FSign(a) == IF FIsZero(a) THEN 0 ELSE IF a[1] = 1 THEN -1 ELSE 1

\* a < b, which is false when a or b is NaN
FLess[a \in Float, b \in Float] ==
    /\ ~FIsNaN(a) /\ ~FIsNaN(b)
    /\ IF FSign(a) # FSign(b) THEN FSign(a) < FSign(b)
       ELSE IF FSign(a) > 0 THEN FMagLess[a, b]
       ELSE IF FSign(a) < 0 THEN FMagLess[b, a]
       ELSE FALSE

\* a == b, which is false when a or b is NaN
FEq[a \in Float, b \in Float] ==
    ~FIsNaN(a) /\ ~FIsNaN(b) /\ (a = b \/ (FIsZero(a) /\ FIsZero(b)))

\* the mantissa of a finite a # 0 with p + 5 bits, and its exponent
FWide[p \in Dtype, a \in Float] ==
    LET k == Max(0, p + 5 - BBitLen[a[2]]) IN <<BShl[a[2], k], a[3] - k>>

\* A + B and A - B with the sign s, for wide A >= B
FAddWide[p \in Dtype, s \in {0, 1}, A \in Big \X Int, B \in Big \X Int] ==
    FRound[p, s, BAdd[A[1], BShr[B[1], A[2] - B[2]]], A[2],
           BLow[B[1], A[2] - B[2]] # <<>>]

FSubWide[p \in Dtype, s \in {0, 1}, A \in Big \X Int, B \in Big \X Int] ==
    FRound[p, s,
           BSub[BSub[A[1], BShr[B[1], A[2] - B[2]]],
                IF BLow[B[1], A[2] - B[2]] # <<>> THEN <<1>> ELSE <<>>],
           A[2], BLow[B[1], A[2] - B[2]] # <<>>]

\* |big| + |small| and |big| - |small| with the sign s, for |big| >= |small|
FAddMag[p \in Dtype, s \in {0, 1}, big \in Float, small \in Float] ==
    FAddWide[p, s, FWide[p, big], FWide[p, small]]

FSubMag[p \in Dtype, s \in {0, 1}, big \in Float, small \in Float] ==
    FSubWide[p, s, FWide[p, big], FWide[p, small]]

FAdd[p \in Dtype, a \in Float, b \in Float] ==
    IF FIsNaN(a) \/ FIsNaN(b) THEN FNaN
    ELSE IF FIsInf(a) THEN (IF FIsInf(b) /\ a[1] # b[1] THEN FNaN ELSE a)
    ELSE IF FIsInf(b) THEN b
    ELSE IF FIsZero(a) THEN (IF FIsZero(b) /\ a[1] # b[1] THEN FZero ELSE b)
    ELSE IF FIsZero(b) THEN a
    ELSE IF a[1] = b[1]
         THEN (IF FMagLess[a, b] THEN FAddMag[p, a[1], b, a] ELSE FAddMag[p, a[1], a, b])
    ELSE IF FMagLess[a, b] THEN FSubMag[p, b[1], b, a]
    ELSE IF FMagLess[b, a] THEN FSubMag[p, a[1], a, b]
    ELSE FZero

FSub[p \in Dtype, a \in Float, b \in Float] == FAdd[p, a, FNeg[b]]

FMul[p \in Dtype, a \in Float, b \in Float] ==
    IF FIsNaN(a) \/ FIsNaN(b) THEN FNaN
    ELSE IF FIsInf(a) \/ FIsInf(b)
         THEN (IF FIsZero(a) \/ FIsZero(b) THEN FNaN ELSE FInf((a[1] + b[1]) % 2))
    ELSE IF FIsZero(a) \/ FIsZero(b) THEN <<(a[1] + b[1]) % 2, <<>>, 0>>
    ELSE FRound[p, (a[1] + b[1]) % 2, BMul[a[2], b[2]], a[3] + b[3], FALSE]

\* the float of the quotient qr = <<q, whether there is a rest>>
FQuotient[p \in Dtype, s \in {0, 1}, qr \in Big \X BOOLEAN, e \in Int] ==
    FRound[p, s, qr[1], e, qr[2]]

\* |a| / |b| with the sign s, as the quotient of a[2] * 2^k and b[2]
FDivMag[p \in Dtype, s \in {0, 1}, a \in Float, b \in Float, k \in Nat] ==
    FQuotient[p, s, BDiv[BShl[a[2], k], b[2]], a[3] - b[3] - k]

FDiv[p \in Dtype, a \in Float, b \in Float] ==
    LET s == (a[1] + b[1]) % 2 IN
    IF FIsNaN(a) \/ FIsNaN(b) THEN FNaN
    ELSE IF FIsInf(a) THEN (IF FIsInf(b) THEN FNaN ELSE FInf(s))
    ELSE IF FIsInf(b) THEN <<s, <<>>, 0>>
    ELSE IF FIsZero(b) THEN (IF FIsZero(a) THEN FNaN ELSE FInf(s))
    ELSE IF FIsZero(a) THEN <<s, <<>>, 0>>
    ELSE FDivMag[p, s, a, b, Max(0, p + 2 + BBitLen[b[2]] - BBitLen[a[2]])]

\* the float nearest to num / den
FRat[p \in Dtype, num \in Int, den \in Int] == FDiv[p, FInt[p, num], FInt[p, den]]

\* the integers floor(a), ceil(a) and a rounded half to even, for finite a
FFloor[a \in Float] ==
    IF FIsZero(a) THEN 0
    ELSE LET q == IF a[3] >= 0 THEN BToInt[BShl[a[2], a[3]]]
                  ELSE BToInt[BShr[a[2], -a[3]]]
         IN IF a[1] = 0 THEN q ELSE IF a[3] >= 0 THEN -q ELSE -q - 1

FCeil[a \in Float] == -FFloor[FNeg[a]]

FRint[a \in Float] ==
    IF FIsZero(a) THEN 0
    ELSE LET q == IF a[3] >= 0 THEN BToInt[BShl[a[2], a[3]]]
                  ELSE BToInt[BShr[a[2], -a[3]]]
             up == /\ a[3] < 0
                   /\ BBit(a[2], -a[3] - 1) = 1
                   /\ BLow[a[2], -a[3] - 1] # <<>> \/ q % 2 = 1
             n == IF up THEN q + 1 ELSE q
         IN IF a[1] = 0 THEN n ELSE -n

\* a % 1 for finite a >= 0
FMod1[p \in Dtype, a \in Float] ==
    IF FIsZero(a) \/ a[3] >= 0 THEN FZero
    ELSE FRound[p, 0, BLow[a[2], -a[3]], a[3], FALSE]

FClamp[a \in Float, lo \in Float, hi \in Float] ==
    IF FIsNaN(a) THEN a
    ELSE IF FLess[a, lo] THEN lo
    ELSE IF FLess[hi, a] THEN hi
    ELSE a

----------------------------------------------------------------------------
(* Tensors: batch x channels x height x width, as torch tensors of 4 dims.  *)
(* A raised exception is a tensor record whose err field names it.          *)

Idx(n, c, h, w) == (1..n) \X (1..c) \X (1..h) \X (1..w)

Mk(n, c, h, w, E(_, _, _, _)) ==
    [err |-> "none", n |-> n, c |-> c, h |-> h, w |-> w,
     v |-> [i \in Idx(n, c, h, w) |-> E(i[1], i[2], i[3], i[4])]]

Raise(msg) ==
    [err |-> msg, n |-> 0, c |-> 0, h |-> 0, w |-> 0,
     v |-> [i \in Idx(0, 0, 0, 0) |-> 0]]

IsErr(t) == t.err # "none"

\* a slice length that drops the incomplete last stride
SliceLenFloor(lo, hi, step) == IF hi > lo THEN (hi - lo) \div step ELSE 0

\* length of the python slice a::step (or a:b) of a dimension
SliceLen(lo, hi, step) == IF hi > lo THEN (hi - lo + step - 1) \div step ELSE 0

\* t[:, a:b]  (0-based, half open, clipped as python slices are)
ChanSlice(t, a, b) ==
    IF IsErr(t) THEN t
    ELSE LET lo == Min(a, t.c)
             hi == Min(b, t.c)
         IN Mk(t.n, SliceLen(lo, hi, 1), t.h, t.w,
               LAMBDA bi, ci, hi2, wi : t.v[<<bi, lo + ci, hi2, wi>>])

\* t[:, :, i::sh, j::sw]
StridedSlice(t, i, sh, j, sw) ==
    IF IsErr(t) THEN t
    ELSE Mk(t.n, t.c, SliceLen(Min(i, t.h), t.h, sh), SliceLen(Min(j, t.w), t.w, sw),
            LAMBDA bi, ci, hi, wi :
                t.v[<<bi, ci, i + (hi - 1) * sh + 1, j + (wi - 1) * sw + 1>>])

\* th.zeros(n, c, h, w)
Zeros(n, c, h, w) == Mk(n, c, h, w, LAMBDA bi, ci, hi, wi : 0)

\* th.cat(ts, dim=1): all other dimensions must agree
RECURSIVE CatFrom(_, _)
CatFrom(acc, ts) ==
    IF ts = <<>> THEN acc
    ELSE LET t == Head(ts) IN
         IF IsErr(acc) THEN acc
         ELSE IF IsErr(t) THEN t
         ELSE IF t.n # acc.n \/ t.h # acc.h \/ t.w # acc.w
              THEN Raise("RuntimeError")
         ELSE CatFrom(Mk(acc.n, acc.c + t.c, acc.h, acc.w,
                         LAMBDA bi, ci, hi, wi :
                             IF ci <= acc.c THEN acc.v[<<bi, ci, hi, wi>>]
                             ELSE t.v[<<bi, ci - acc.c, hi, wi>>]),
                      Tail(ts))

Cat(ts) == IF ts = <<>> THEN Raise("RuntimeError") ELSE CatFrom(Head(ts), Tail(ts))

\* th.chunk(t, 2, dim=1): chunks of ceil(c / 2) channels; one chunk when c = 1
Chunk2(t) ==
    LET split_size == (t.c + 1) \div 2
    IN IF t.c <= split_size THEN <<t>>
       ELSE <<ChanSlice(t, 0, split_size), ChanSlice(t, split_size, t.c)>>

\* broadcasting of one dimension: equal, or one of them is 1
BDim(a, b) == IF a = b THEN a ELSE IF a = 1 THEN b ELSE IF b = 1 THEN a ELSE -1
BIx(k, d) == IF d = 1 THEN 1 ELSE k

\* elementwise a + sign * b with torch broadcasting
AddSigned(a, b, sign) ==
    IF IsErr(a) THEN a
    ELSE IF IsErr(b) THEN b
    ELSE LET n == BDim(a.n, b.n)
             c == BDim(a.c, b.c)
             h == BDim(a.h, b.h)
             w == BDim(a.w, b.w)
         IN IF n < 0 \/ c < 0 \/ h < 0 \/ w < 0 THEN Raise("RuntimeError")
            ELSE Mk(n, c, h, w,
                    LAMBDA bi, ci, hi, wi :
                        a.v[<<BIx(bi, a.n), BIx(ci, a.c), BIx(hi, a.h), BIx(wi, a.w)>>]
                        + sign * b.v[<<BIx(bi, b.n), BIx(ci, b.c), BIx(hi, b.h), BIx(wi, b.w)>>])

TAdd(a, b) == AddSigned(a, b, 1)
TSub(a, b) == AddSigned(a, b, -1)

----------------------------------------------------------------------------
(* The sub-transforms F and G of a ReversibleBlock are any modules that     *)
(* keep the shape; the model owns two of them: the zero function, and a    *)
(* nonlinear one that mixes channels, -|t| with the channels reversed.      *)

Fns == {"zero", "negabsflip"}

ApplyFn(f, t) ==
    IF IsErr(t) THEN t
    ELSE IF f = "zero" THEN Zeros(t.n, t.c, t.h, t.w)
    ELSE Mk(t.n, t.c, t.h, t.w,
            LAMBDA bi, ci, hi, wi : -Abs(t.v[<<bi, t.c + 1 - ci, hi, wi>>]))

----------------------------------------------------------------------------
(* Stages of the feature model *)

ReversibleBlock(F, G) ==
    [kind |-> "ReversibleBlock", F |-> F, G |-> G,
     stride |-> <<1, 1>>, chunk_chans_first |-> FALSE]

SubsampleSplitter(stride, chunk_chans_first) ==
    [kind |-> "SubsampleSplitter", F |-> "zero", G |-> "zero",
     stride |-> stride, chunk_chans_first |-> chunk_chans_first]

\* a ReversibleBlock.forward that adds the wrong half in its second line:
\* y2 = G(y1) + x2
ReversibleBlockForwardWrongHalf(module, t) ==
    LET n_chans == t.c IN
    IF n_chans % 2 # 0 THEN Raise("AssertionError")
    ELSE LET x1 == ChanSlice(t, 0, n_chans \div 2)
             x2 == ChanSlice(t, n_chans \div 2, n_chans)
             y1 == TAdd(ApplyFn(module.F, x1), x2)
             y2 == TAdd(ApplyFn(module.G, y1), x2)
         IN Cat(<<y1, y2>>)

\* ReversibleBlock.forward
ReversibleBlockForward(module, t) ==
    LET n_chans == t.c IN
    IF n_chans % 2 # 0 THEN Raise("AssertionError")
    ELSE LET x1 == ChanSlice(t, 0, n_chans \div 2)
             x2 == ChanSlice(t, n_chans \div 2, n_chans)
             y1 == TAdd(ApplyFn(module.F, x1), x2)
             y2 == TAdd(ApplyFn(module.G, y1), x1)
         IN Cat(<<y1, y2>>)

\* the slices one_x[:, :, i_stride::stride[0], j_stride::stride[1]] of one
\* stream, i_stride outer and j_stride inner
StrideSlices(one_x, stride) ==
    [k \in 1..(stride[1] * stride[2]) |->
        StridedSlice(one_x, (k - 1) \div stride[2], stride[1],
                     (k - 1) % stride[2], stride[2])]

RECURSIVE Flatten(_)
Flatten(ss) == IF ss = <<>> THEN <<>> ELSE Head(ss) \o Flatten(Tail(ss))

\* SubsampleSplitter.forward
SubsampleSplitterForward(module, t) ==
    LET xs == IF module.chunk_chans_first THEN Chunk2(t) ELSE <<t>>
        new_x == Flatten([k \in 1..Len(xs) |-> StrideSlices(xs[k], module.stride)])
    IN Cat(new_x)

\* a nn.Sequential used as a stage of a feature model
Sequential(children) == [kind |-> "Sequential", children |-> children]

RECURSIVE StageForward(_, _)
RECURSIVE SeqForward(_, _)

StageForward(module, t) ==
    IF IsErr(t) THEN t
    ELSE IF module.kind = "ReversibleBlock" THEN ReversibleBlockForward(module, t)
    ELSE IF module.kind = "Sequential" THEN SeqForward(module.children, t)
    ELSE SubsampleSplitterForward(module, t)

\* nn.Sequential.forward: every module in order, an object that was added
\* more than once as often as it was added
SeqForward(model, t) ==
    IF model = <<>> THEN t
    ELSE SeqForward(Tail(model), StageForward(Head(model), t))

\* prev[:, :, i::sh, j::sw] = src  (src broadcast to the shape of the slice)
AssignStrided(prev, i, sh, j, sw, src) ==
    IF IsErr(prev) THEN prev
    ELSE IF IsErr(src) THEN src
    ELSE LET hl == SliceLen(Min(i, prev.h), prev.h, sh)
             wl == SliceLen(Min(j, prev.w), prev.w, sw)
             fits == /\ src.n \in {1, prev.n}
                     /\ src.c \in {1, prev.c}
                     /\ src.h \in {1, hl}
                     /\ src.w \in {1, wl}
         IN IF ~fits THEN Raise("RuntimeError")
            ELSE Mk(prev.n, prev.c, prev.h, prev.w,
                    LAMBDA bi, ci, hi, wi :
                        IF (hi - 1) % sh = i /\ (wi - 1) % sw = j
                        THEN src.v[<<BIx(bi, src.n), BIx(ci, src.c),
                                     BIx((hi - 1) \div sh + 1, src.h),
                                     BIx((wi - 1) \div sw + 1, src.w)>>]
                        ELSE prev.v[<<bi, ci, hi, wi>>])

\* the loop over i_stride, j_stride of invert, from cur_chan on
RECURSIVE ScatterFrom(_, _, _, _)
ScatterFrom(previous_features, one_chan_features, stride, cur_chan) ==
    IF cur_chan >= stride[1] * stride[2] THEN previous_features
    ELSE LET n_chans_before == previous_features.c
             i_stride == cur_chan \div stride[2]
             j_stride == cur_chan % stride[2]
             part == ChanSlice(one_chan_features, cur_chan * n_chans_before,
                               cur_chan * n_chans_before + n_chans_before)
         IN ScatterFrom(AssignStrided(previous_features, i_stride, stride[1],
                                      j_stride, stride[2], part),
                        one_chan_features, stride, cur_chan + 1)

\* the streams invert cuts the features of a SubsampleSplitter into
InvertChanFeatures(module, t) ==
    LET n_all_chans_before == t.c \div (module.stride[1] * module.stride[2])
    IN IF module.chunk_chans_first /\ n_all_chans_before > 1
       THEN Chunk2(t) ELSE <<t>>

\* invert, branch SubsampleSplitter
InvertSubsampleSplitter(module, t) ==
    LET chan_features == InvertChanFeatures(module, t)
        all_previous_features ==
            [k \in 1..Len(chan_features) |->
                LET one == chan_features[k]
                IN ScatterFrom(
                       Zeros(one.n, one.c \div (module.stride[1] * module.stride[2]),
                             one.h * module.stride[1], one.w * module.stride[2]),
                       one, module.stride, 0)]
    IN Cat(all_previous_features)

\* invert, branch ReversibleBlock
InvertReversibleBlock(module, t) ==
    LET n_chans == t.c
        y1 == ChanSlice(t, 0, n_chans \div 2)
        y2 == ChanSlice(t, n_chans \div 2, n_chans)
        x1 == TSub(y2, ApplyFn(module.G, y1))
        x2 == TSub(y1, ApplyFn(module.F, x1))
    IN Cat(<<x1, x2>>)

InvertStage(module, t) ==
    IF IsErr(t) THEN t
    ELSE IF module.kind = "ReversibleBlock" THEN InvertReversibleBlock(module, t)
    ELSE IF module.kind = "SubsampleSplitter" THEN InvertSubsampleSplitter(module, t)
    ELSE t

\* feature_model.children(): the modules of the nn.Sequential in their order,
\* an object that was added more than once only at its first position
RECURSIVE ChildrenFrom(_, _, _)
ChildrenFrom(modules, first_position, k) ==
    IF k > Len(modules) THEN <<>>
    ELSE (IF first_position[k] = k THEN <<modules[k]>> ELSE <<>>)
         \o ChildrenFrom(modules, first_position, k + 1)

Children(modules, first_position) == ChildrenFrom(modules, first_position, 1)

\* an invert that goes through the children in their forward order
RECURSIVE invertForwardOrder(_, _)
invertForwardOrder(feature_model, t) ==
    IF feature_model = <<>> THEN t
    ELSE invertForwardOrder(Tail(feature_model),
                            InvertStage(Head(feature_model), t))

\* invert(feature_model, features): the children in reverse order
RECURSIVE invert(_, _)
invert(feature_model, t) ==
    IF feature_model = <<>> THEN t
    ELSE invert(SubSeq(feature_model, 1, Len(feature_model) - 1),
                InvertStage(feature_model[Len(feature_model)], t))

----------------------------------------------------------------------------
(* Reversible part: a feature model is built, then either forward and       *)
(* invert, or invert and forward, are called on a tensor.                   *)

Strides == StrideVals \X StrideVals

Stages ==
    {ReversibleBlock(F, G) : F \in Fns, G \in Fns}
    \cup {SubsampleSplitter(st, ch) : st \in Strides, ch \in BOOLEAN}

Pipelines == SeqsOf(Stages, 1, MaxStages)

\* the ways the modules of a nn.Sequential can be the same objects: equal
\* positions hold one object, which has one class and one set of attributes
InstanceMaps(modules) ==
    {first_position \in [DOMAIN modules -> DOMAIN modules] :
        \A k \in DOMAIN modules :
            /\ first_position[k] <= k
            /\ first_position[first_position[k]] = first_position[k]
            /\ modules[first_position[k]] = modules[k]}

\* input tensors: all elements distinct, counted from 1 in memory order
Ramp(n, c, h, w) ==
    Mk(n, c, h, w,
       LAMBDA bi, ci, hi, wi :
           1 + ((bi - 1) * c + (ci - 1)) * h * w + (hi - 1) * w + (wi - 1))

Inputs ==
    {Ramp(n, c, h, w) :
        n \in BatchVals, c \in 1..MaxChans, h \in HeightVals, w \in WidthVals}

NoTensor == Raise("not computed")

SameShape(a, b) == a.n = b.n /\ a.c = b.c /\ a.h = b.h /\ a.w = b.w

InitRev ==
    /\ rpc = "built"
    /\ pipeline \in Pipelines
    /\ instance_of \in InstanceMaps(pipeline)
    /\ x \in Inputs
    /\ features = NoTensor
    /\ rec = NoTensor
    /\ SfwIdle /\ BatchIdle /\ TrainIdle /\ RestIdle /\ MoreIdle

\* features = feature_model(x)
Forward ==
    /\ rpc = "built"
    /\ features' = SeqForward(pipeline, x)
    /\ rpc' = "forwarded"
    /\ UNCHANGED <<pipeline, instance_of, x, rec,
                   sfwVars, batchVars, trainVars, restVars, moreVars>>

\* rec = invert(feature_model, features)
InvertFeatures ==
    /\ rpc = "forwarded"
    /\ ~IsErr(features)
    /\ rec' = invert(Children(pipeline, instance_of), features)
    /\ rpc' = "round_trip"
    /\ UNCHANGED <<pipeline, instance_of, x, features,
                   sfwVars, batchVars, trainVars, restVars, moreVars>>

\* features = invert(feature_model, x)
InvertFirst ==
    /\ rpc = "built"
    /\ features' = invert(Children(pipeline, instance_of), x)
    /\ rpc' = "inverted"
    /\ UNCHANGED <<pipeline, instance_of, x, rec,
                   sfwVars, batchVars, trainVars, restVars, moreVars>>

\* rec = feature_model(features)
ForwardAgain ==
    /\ rpc = "inverted"
    /\ ~IsErr(features)
    /\ rec' = SeqForward(pipeline, features)
    /\ rpc' = "reverse_trip"
    /\ UNCHANGED <<pipeline, instance_of, x, features,
                   sfwVars, batchVars, trainVars, restVars, moreVars>>

NextRev == Forward \/ InvertFeatures \/ InvertFirst \/ ForwardAgain

SpecRev == InitRev /\ [][NextRev]_vars

\* feature models that also have a nn.Sequential among their children
InnerStages ==
    {ReversibleBlock("negabsflip", "zero"), SubsampleSplitter(<<2, 1>>, FALSE)}

NestedStages ==
    InnerStages
    \cup {ReversibleBlock("zero", "negabsflip"), SubsampleSplitter(<<1, 2>>, TRUE)}
    \cup {Sequential(children) : children \in SeqsOf(InnerStages, 0, 1)}

InitNested ==
    /\ rpc = "built"
    /\ pipeline \in SeqsOf(NestedStages, 1, MaxStages)
    /\ instance_of \in InstanceMaps(pipeline)
    /\ x \in Inputs
    /\ features = NoTensor
    /\ rec = NoTensor
    /\ SfwIdle /\ BatchIdle /\ TrainIdle /\ RestIdle /\ MoreIdle

SpecNested == InitNested /\ [][NextRev]_vars

----------------------------------------------------------------------------
(* Claims about the reversible part *)

StrideProd(module) == module.stride[1] * module.stride[2]

\* shape <<c, h, w>> is the shape of some output of the pipeline: walking
\* back, a ReversibleBlock keeps an even channel count, a SubsampleSplitter
\* turns (c, h, w) into (c * sh * sw, h / sh, w / sw)
RECURSIVE IsOutputShape(_, _)
IsOutputShape(p, shape) ==
    IF p = <<>> THEN shape[1] >= 1
    ELSE LET m == p[Len(p)]
             front == SubSeq(p, 1, Len(p) - 1)
         IN IF m.kind = "ReversibleBlock"
            THEN shape[1] % 2 = 0 /\ IsOutputShape(front, shape)
            ELSE /\ shape[1] % StrideProd(m) = 0
                 /\ IsOutputShape(front, <<shape[1] \div StrideProd(m),
                                           shape[2] * m.stride[1],
                                           shape[3] * m.stride[2]>>)

\* C1: round trip. For every pipeline of ReversibleBlock / SubsampleSplitter
\* stages and every input the forward pass accepts (even channel count at
\* each ReversibleBlock, spatial dims divisible by the stride at each
\* SubsampleSplitter), invert(pipeline, pipeline.forward(x)) equals x.
C1_RoundTrip == rpc = "round_trip" => rec = x

\* channel counts of the streams of a sequence of tensors
StreamChans(ts) == [k \in 1..Len(ts) |-> ts[k].c]

\* C2: a SubsampleSplitter with chunk_chans_first tracks the channel split
\* symmetrically: invert cuts the features into as many streams as forward
\* cut the input into, each holding the channels forward produced from that
\* stream (stride[0] * stride[1] times its channel count), and the round
\* trip returns x, for every channel count c >= 1.
C2_SymmetricSplit ==
    (/\ rpc = "round_trip"
     /\ Len(pipeline) = 1
     /\ pipeline[1].kind = "SubsampleSplitter"
     /\ pipeline[1].chunk_chans_first)
    => /\ StreamChans(InvertChanFeatures(pipeline[1], features))
            = [k \in 1..Len(Chunk2(x)) |-> Chunk2(x)[k].c * StrideProd(pipeline[1])]
       /\ rec = x

\* C3: the reverse composition. For every feature tensor y (held in x) whose
\* shape is a possible output shape of the pipeline,
\* pipeline.forward(invert(pipeline, y)) equals y.
C3_ReverseTrip ==
    (rpc = "reverse_trip" /\ IsOutputShape(pipeline, <<x.c, x.h, x.w>>)) => rec = x

\* the pipeline is one ReversibleBlock and forward has returned a tensor
OneBlockForwarded ==
    /\ rpc \in {"forwarded", "round_trip"}
    /\ Len(pipeline) = 1
    /\ pipeline[1].kind = "ReversibleBlock"
    /\ ~IsErr(features)

\* C4: ReversibleBlock.forward returns y1 = F(x1) + x2 on the first half of the
\* channels and y2 = G(y1) + x1 on the second half, x1 and x2 being the halves
\* of the input; with F = G = zero the output is the input with its halves
\* swapped ([1,2,3,4] gives [3,4,1,2]) and invert of it returns the input.
C4_CouplingForward ==
    OneBlockForwarded =>
        LET half == x.c \div 2
            x1 == ChanSlice(x, 0, half)
            x2 == ChanSlice(x, half, x.c)
            y1 == ChanSlice(features, 0, half)
            y2 == ChanSlice(features, half, x.c)
            Fx1 == ApplyFn(pipeline[1].F, x1)
            Gy1 == ApplyFn(pipeline[1].G, y1)
        IN /\ SameShape(features, x)
           /\ \A i \in Idx(x.n, half, x.h, x.w) :
                /\ y1.v[i] = Fx1.v[i] + x2.v[i]
                /\ y2.v[i] = Gy1.v[i] + x1.v[i]
           /\ (pipeline[1].F = "zero" /\ pipeline[1].G = "zero") =>
                /\ \A i \in Idx(x.n, half, x.h, x.w) :
                     /\ features.v[i] = x.v[<<i[1], i[2] + half, i[3], i[4]>>]
                     /\ features.v[<<i[1], i[2] + half, i[3], i[4]>>] = x.v[i]
                /\ rpc = "round_trip" => rec = x
           /\ (pipeline[1].F = "zero" /\ pipeline[1].G = "zero"
               /\ x = Ramp(1, 4, 1, 1)) =>
                [c \in 1..4 |-> features.v[<<1, c, 1, 1>>]] = <<3, 4, 1, 2>>

\* the scenario of C4 has run: [1,2,3,4] went through a block with F = G = zero
\* and came back from invert
C4_Witness ==
    /\ rpc = "round_trip"
    /\ pipeline = <<ReversibleBlock("zero", "zero")>>
    /\ x = Ramp(1, 4, 1, 1)
    /\ [c \in 1..4 |-> features.v[<<1, c, 1, 1>>]] = <<3, 4, 1, 2>>
    /\ [c \in 1..4 |-> rec.v[<<1, c, 1, 1>>]] = <<1, 2, 3, 4>>

\* the tensor stage k of the pipeline receives in a forward pass of x
InputOfStage(k) == SeqForward(SubSeq(pipeline, 1, k - 1), x)

\* the tensor child k of the pipeline receives when invert is called on x
FeaturesOfChild(children, k) == invert(SubSeq(children, k + 1, Len(children)), x)

OddChannels(t) == ~IsErr(t) /\ t.c % 2 = 1

\* C17: an odd channel count into a coupling block fails fast.
\* ReversibleBlock.forward on an input with an odd number of channels, and
\* invert through a ReversibleBlock on features with an odd number of
\* channels, both end in an error and never return a tensor.
C17_OddChannelsFail ==
    /\ rpc = "forwarded" =>
         \A k \in DOMAIN pipeline :
            (pipeline[k].kind = "ReversibleBlock" /\ OddChannels(InputOfStage(k)))
            => IsErr(features)
    /\ rpc = "inverted" =>
         LET children == Children(pipeline, instance_of) IN
         \A k \in DOMAIN children :
            (/\ children[k].kind = "ReversibleBlock"
             /\ OddChannels(FeaturesOfChild(children, k)))
            => IsErr(features)

\* height or width of the tensor is not a multiple of the stride
NotDivisible(t, stride) ==
    ~IsErr(t) /\ (t.h % stride[1] # 0 \/ t.w % stride[2] # 0)

\* C18: non-divisible spatial dims into a subsample split fail. For every
\* stride (sh, sw) and every input whose height is not a multiple of sh or
\* whose width is not a multiple of sw, SubsampleSplitter.forward ends in an
\* error and returns no output.
C18_NonDivisibleFails ==
    rpc = "forwarded" =>
        \A k \in DOMAIN pipeline :
            (pipeline[k].kind = "SubsampleSplitter"
             /\ NotDivisible(InputOfStage(k), pipeline[k].stride))
            => IsErr(features)

\* forward of a SubsampleSplitter with stride (2, 1) was called on an input
\* of height 3 and raised
C18_Witness ==
    /\ rpc = "forwarded"
    /\ pipeline = <<SubsampleSplitter(<<2, 1>>, FALSE)>>
    /\ x.h = 3
    /\ features.err = "RuntimeError"

IsReversibleStage(module) == module.kind \in {"ReversibleBlock", "SubsampleSplitter"}

\* what the claim expects of invert: the inverse of the last direct child
\* first, that of the first one last, each once, and nothing for a child
\* that is neither a ReversibleBlock nor a SubsampleSplitter
RECURSIVE InverseOfDirectChildren(_, _)
InverseOfDirectChildren(children, t) ==
    IF children = <<>> THEN t
    ELSE LET later == InverseOfDirectChildren(Tail(children), t)
             module == Head(children)
         IN IF IsErr(later) THEN later
            ELSE IF module.kind = "ReversibleBlock"
                 THEN InvertReversibleBlock(module, later)
            ELSE IF module.kind = "SubsampleSplitter"
                 THEN InvertSubsampleSplitter(module, later)
            ELSE later

OnlyOtherChildren(children) ==
    \A k \in DOMAIN children : ~IsReversibleStage(children[k])

\* C28: invert visits only the direct children of the pipeline, in the
\* reverse of their forward order, and applies the inverse of each
\* ReversibleBlock / SubsampleSplitter child exactly once; for a direct
\* child of any other type (a nested Sequential, with or without reversible
\* stages in it) it leaves the features unchanged and raises no error.
C28_DirectChildrenOnly ==
    /\ rpc = "inverted" =>
         /\ features = InverseOfDirectChildren(Children(pipeline, instance_of), x)
         /\ OnlyOtherChildren(pipeline) => features = x
    /\ rpc = "round_trip" =>
         /\ rec = InverseOfDirectChildren(Children(pipeline, instance_of), features)
         /\ OnlyOtherChildren(pipeline) => rec = features

\* invert was called on the features of a pipeline made of a nested
\* Sequential that holds a ReversibleBlock, and of a ReversibleBlock: it
\* returned without error, and neither the features nor the input
C28_Witness ==
    /\ rpc = "round_trip"
    /\ Len(pipeline) = 2
    /\ pipeline[1] = Sequential(<<ReversibleBlock("negabsflip", "zero")>>)
    /\ pipeline[2].kind = "ReversibleBlock"
    /\ ~IsErr(rec)
    /\ rec # features
    /\ rec # x

----------------------------------------------------------------------------
(* sizes_from_weights(size, weights), weights being a numpy array of dtype.  *)

\* np.argsort(key[mask])[0] mapped back through np.flatnonzero(mask): the
\* masked index of the smallest key, the first one among equal keys
ArgFirstMin[mask \in SUBSET Nat, key \in Seq(Float)] ==
    CHOOSE i \in mask :
        \A j \in mask : FLess[key[i], key[j]] \/ (FEq[key[i], key[j]] /\ i <= j)

Negated(key) == [i \in DOMAIN key |-> FNeg[key[i]]]

\* fractional_sizes[i] of weights ws and size n
FractionalSize(p, ws, n, i) ==
    FMul[p, FDiv[p, FInt[p, ws[i]], FInt[p, SumSeq(ws)]], FInt[p, n]]

SfwInputs ==
    {in \in [size : 1..MaxTotal, weights : SeqsOf(WeightVals, 1, MaxClusters)] :
        SumSeq(in.weights) > 0}

InitSfw ==
    /\ \E in \in SfwInputs : size = in.size /\ weights = in.weights
    /\ dtype \in Dtype
    /\ spc = "called"
    /\ fractional_sizes = <<>> /\ rounded = <<>> /\ diff_with_half = <<>>
    /\ n_total = 0 /\ n_iter = 0
    /\ sfw_exc = "none"
    /\ RevIdle /\ BatchIdle /\ TrainIdle /\ RestIdle /\ MoreIdle

\* the statements before the loops
SfwRound ==
    /\ spc = "called"
    /\ fractional_sizes' =
          [i \in DOMAIN weights |-> FractionalSize(dtype, weights, size, i)]
    /\ rounded' = [i \in DOMAIN weights |-> FRint[fractional_sizes'[i]]]
    /\ diff_with_half' =
          [i \in DOMAIN weights |->
              FSub[dtype, FMod1[dtype, fractional_sizes'[i]], FHalf]]
    /\ n_total' = SumSeq(rounded')
    /\ spc' = "while_more"
    /\ UNCHANGED <<size, dtype, weights, n_iter, sfw_exc,
                   revVars, batchVars, trainVars, restVars, moreVars>>

IsPositive(r) == {i \in DOMAIN r : r[i] > 0}

\* the mask of one iteration of `while n_total > size`
MaskMore == 
    LET mask == {i \in DOMAIN rounded :
                    FLess[FZero, diff_with_half[i]] /\ rounded[i] > 0}
    IN IF mask = {} THEN IsPositive(rounded) ELSE mask

\* a mask for `while n_total < size` that also takes clusters of size 0
MaskLessAnyRounded ==
    LET mask == {i \in DOMAIN rounded : FLess[diff_with_half[i], FZero]}
    IN IF mask = {} THEN DOMAIN rounded ELSE mask

\* the mask of one iteration of `while n_total < size`
MaskLess ==
    LET mask == {i \in DOMAIN rounded :
                    FLess[diff_with_half[i], FZero] /\ rounded[i] > 0}
    IN IF mask = {} THEN IsPositive(rounded) ELSE mask

\* an iteration of `while n_total > size` that forgets `n_total -= 1`
SfwTakeSmallerKeepsTotal ==
    /\ spc = "while_more"
    /\ n_total > size
    /\ IF MaskMore = {}
       THEN /\ spc' = "raised" /\ sfw_exc' = "IndexError"
            /\ UNCHANGED <<rounded, diff_with_half, n_total, n_iter>>
       ELSE LET i_min == ArgFirstMin[MaskMore, diff_with_half] IN
            /\ diff_with_half' =
                 [diff_with_half EXCEPT ![i_min] = FAdd[dtype, @, FHalf]]
            /\ rounded' = [rounded EXCEPT ![i_min] = @ - 1]
            /\ n_iter' = n_iter + 1
            /\ UNCHANGED <<n_total, spc, sfw_exc>>
    /\ UNCHANGED <<size, dtype, weights, fractional_sizes,
                   revVars, batchVars, trainVars, restVars, moreVars>>

\* one iteration of `while n_total > size`
SfwTakeSmaller ==
    /\ spc = "while_more"
    /\ n_total > size
    /\ IF MaskMore = {}
       THEN /\ spc' = "raised" /\ sfw_exc' = "IndexError"
            /\ UNCHANGED <<rounded, diff_with_half, n_total, n_iter>>
       ELSE LET i_min == ArgFirstMin[MaskMore, diff_with_half] IN
            /\ diff_with_half' =
                 [diff_with_half EXCEPT ![i_min] = FAdd[dtype, @, FHalf]]
            /\ rounded' = [rounded EXCEPT ![i_min] = @ - 1]
            /\ n_total' = n_total - 1
            /\ n_iter' = n_iter + 1
            /\ UNCHANGED <<spc, sfw_exc>>
    /\ UNCHANGED <<size, dtype, weights, fractional_sizes,
                   revVars, batchVars, trainVars, restVars, moreVars>>

\* one iteration of `while n_total < size`
SfwTakeBigger ==
    /\ spc \in {"while_more", "while_less"}
    /\ n_total < size
    /\ IF MaskLess = {}
       THEN /\ spc' = "raised" /\ sfw_exc' = "IndexError"
            /\ UNCHANGED <<rounded, diff_with_half, n_total, n_iter>>
       ELSE LET i_min == ArgFirstMin[MaskLess, Negated(diff_with_half)] IN
            /\ diff_with_half' =
                 [diff_with_half EXCEPT ![i_min] = FSub[dtype, @, FHalf]]
            /\ rounded' = [rounded EXCEPT ![i_min] = @ + 1]
            /\ n_total' = n_total + 1
            /\ n_iter' = n_iter + 1
            /\ spc' = "while_less"
            /\ UNCHANGED sfw_exc
    /\ UNCHANGED <<size, dtype, weights, fractional_sizes,
                   revVars, batchVars, trainVars, restVars, moreVars>>

\* both loops are over: the final assert, and the return of the sizes
SfwReturn ==
    /\ spc \in {"while_more", "while_less"}
    /\ n_total = size
    /\ IF SumSeq(rounded) = size
       THEN spc' = "done" /\ sfw_exc' = "none"
       ELSE spc' = "raised" /\ sfw_exc' = "AssertionError"
    /\ UNCHANGED <<size, dtype, weights, fractional_sizes, rounded, diff_with_half,
                   n_total, n_iter,
                   revVars, batchVars, trainVars, restVars, moreVars>>

NextSfw == SfwRound \/ SfwTakeSmaller \/ SfwTakeBigger \/ SfwReturn

SpecSfw == InitSfw /\ [][NextSfw]_vars

\* the interpreter always runs the next statement of a call that has one
SpecSfwFair == SpecSfw /\ WF_vars(NextSfw)

----------------------------------------------------------------------------
(* Claims about sizes_from_weights *)

\* C5: partition exactness. For every positive total and every vector of
\* non-negative weights with positive sum, sizes_from_weights never raises,
\* and the sizes it returns are all >= 0 and sum exactly to the total.
C5_PartitionExact ==
    /\ spc # "raised"
    /\ spc = "done" =>
         /\ \A i \in DOMAIN rounded : rounded[i] >= 0
         /\ SumSeq(rounded) = size

\* C6: minimal distortion. Every returned size is the floor or the ceiling of
\* its cluster's fractional size size * w_i / sum(w), so differs from it by
\* less than 1; for weights [1,1,1] and total 10 each size is 3 or 4.
C6_MinimalDistortion ==
    spc = "done" =>
        /\ \A i \in DOMAIN rounded :
             Abs(rounded[i] * SumSeq(weights) - size * weights[i]) < SumSeq(weights)
        /\ (weights = <<1, 1, 1>> /\ size = 10) =>
             \A i \in DOMAIN rounded : rounded[i] \in {3, 4}

\* the clusters whose size is now on the wrong side of their fractional
\* size: above it when the total is too big, below it when too small
WrongSide(dir) ==
    {j \in DOMAIN rounded :
        IF dir < 0 THEN rounded[j] * SumSeq(weights) > size * weights[j]
        ELSE rounded[j] * SumSeq(weights) < size * weights[j]}

\* twice the distance of the fractional remainder of cluster j from 0.5,
\* in units of 1 / sum(weights)
DistToHalf(j) == Abs(2 * ((weights[j] * size) % SumSeq(weights)) - SumSeq(weights))

\* C23: correction rule. While the rounded total differs from the requested
\* total, each iteration changes exactly one cluster by exactly 1 in the
\* direction needed, and the cluster chosen is, among all clusters, the one
\* whose fractional remainder is closest to 0.5 on the side that was rounded
\* the wrong way, the lowest index among clusters tied on that distance.
C23_CorrectionRule ==
    [][n_iter' = n_iter + 1 =>
          LET dir == IF n_total > size THEN -1 ELSE 1
              candidates == WrongSide(dir)
          IN \E i \in candidates :
                /\ rounded' = [rounded EXCEPT ![i] = @ + dir]
                /\ \A j \in candidates :
                      \/ DistToHalf(i) < DistToHalf(j)
                      \/ DistToHalf(i) = DistToHalf(j) /\ i <= j]_vars

\* the total of the rounded sizes before any correction
InitTotal == SumSeq([i \in DOMAIN weights |-> FRint[fractional_sizes[i]]])

\* C29: termination. Every call of sizes_from_weights ends (returns or
\* raises); each correction iteration moves n_total exactly one closer to
\* the requested size, n_total always equals the sum of the rounded sizes,
\* at most one of the two correction loops runs (the iterations all go one
\* way), and there are at most as many iterations as clusters.
C29_Terminates ==
    /\ [](spc # "called" =>
            /\ n_total = SumSeq(rounded)
            /\ n_iter = Abs(n_total - InitTotal)
            /\ Abs(size - n_total) = Abs(size - InitTotal) - n_iter
            /\ n_iter <= Len(weights))
    /\ <>(spc \in {"done", "raised"})

\* a call that needed two correction iterations has returned
C29_Witness == spc = "done" /\ n_iter = 2 /\ sfw_exc = "none"

----------------------------------------------------------------------------
(* Batch construction: get_exact_size_batches, get_batches_equal_classes.   *)
(* Indices are counted from 0 as in the code; rng.shuffle leaves any        *)
(* permutation.                                                             *)

\* the arrays rng.shuffle(np.arange(n)) can leave
Perms(n) == {p \in [1..n -> 0..(n - 1)] : \A i, j \in 1..n : i # j => p[i] # p[j]}

\* a[lo:hi] of a 1-d array, 0 <= lo, 0 <= hi
ArraySlice(a, lo, hi) == SubSeq(a, lo + 1, Min(hi, Len(a)))

\* len(range(0, stop, step))
RangeLen(stop, step) == IF stop > 0 THEN (stop + step - 1) \div step ELSE 0

\* a get_exact_size_batches that fills the last batch from its own start
\* instead of from the start of the shuffled indices
GetExactSizeBatchesPadFromTail(i_trials, batchsize) ==
    LET n == Len(i_trials)
        n_full == RangeLen(n - batchsize, batchsize)
        full == [k \in 1..n_full |->
                    ArraySlice(i_trials, (k - 1) * batchsize, k * batchsize)]
        i_trial == (IF n_full = 0 THEN 0 ELSE (n_full - 1) * batchsize) + batchsize
        last_batch == ArraySlice(i_trials, i_trial, n)
        n_remain == batchsize - Len(last_batch)
    IN Append(full, last_batch \o ArraySlice(i_trials, i_trial, i_trial + n_remain))

\* get_exact_size_batches, i_trials being the shuffled np.arange(n_trials)
GetExactSizeBatches(i_trials, batchsize) ==
    LET n == Len(i_trials)
        n_full == RangeLen(n - batchsize, batchsize)
        full == [k \in 1..n_full |->
                    ArraySlice(i_trials, (k - 1) * batchsize, k * batchsize)]
        i_trial == (IF n_full = 0 THEN 0 ELSE (n_full - 1) * batchsize) + batchsize
        last_batch == ArraySlice(i_trials, i_trial, n)
        n_remain == batchsize - Len(last_batch)
    IN Append(full, last_batch \o ArraySlice(i_trials, 0, n_remain))

\* np.nonzero(targets == i_cluster)[0]: the positions of the class, ascending
RECURSIVE ClusterIndices(_, _, _)
ClusterIndices(tgts, i_cluster, from) ==
    IF from > Len(tgts) THEN <<>>
    ELSE (IF tgts[from] = i_cluster THEN <<from - 1>> ELSE <<>>)
         \o ClusterIndices(tgts, i_cluster, from + 1)

\* a get_batches_equal_classes that shares batch_size among the classes
PerClassBatchSizeShared(batchsize, n_classes) ==
    (batchsize + n_classes - 1) \div n_classes

\* the per-class batch size get_batches_equal_classes asks for: batch_size
PerClassBatchSize(batchsize, n_classes) == batchsize

\* batches_per_cluster of get_batches_equal_classes; shuffles[c] is the
\* permutation rng.shuffle leaves for class c - 1
BatchesPerCluster(tgts, n_classes, shuffles, batchsize) ==
    [c \in 1..n_classes |->
        LET this_cluster_indices == ClusterIndices(tgts, c - 1, 1)
            examples_per_batch ==
                GetExactSizeBatches(shuffles[c], PerClassBatchSize(batchsize, n_classes))
        IN [b \in 1..Len(examples_per_batch) |->
               [k \in 1..Len(examples_per_batch[b]) |->
                   this_cluster_indices[examples_per_batch[b][k] + 1]]]]

\* np.concatenate(batches_per_cluster, axis=1) can be done: every class has
\* the same number of batches
CanConcatenate(per_cluster) ==
    \A c \in DOMAIN per_cluster : Len(per_cluster[c]) = Len(per_cluster[1])

RECURSIVE ConcatRow(_, _, _)
ConcatRow(per_cluster, b, c) ==
    IF c > Len(per_cluster) THEN <<>>
    ELSE per_cluster[c][b] \o ConcatRow(per_cluster, b, c + 1)

ConcatenateAxis1(per_cluster) ==
    [b \in 1..Len(per_cluster[1]) |-> ConcatRow(per_cluster, b, 1)]

ClassCount(tgts, i_cluster) == Len(ClusterIndices(tgts, i_cluster, 1))

\* n_classes as train_epoch_per_class passes it
NClasses == 2

AllPerms == UNION {Perms(n) : n \in 0..MaxTrials}

Shuffles(tgts) ==
    {sh \in [1..NClasses -> AllPerms] :
        \A c \in 1..NClasses : Len(sh[c]) = ClassCount(tgts, c - 1)}

InitBatch ==
    /\ bpc = "start"
    /\ batch_size \in 1..MaxBatchSize
    /\ \/ n_trials \in 1..MaxTrials /\ targets = <<>>
       \/ n_trials = 0 /\ targets \in SeqsOf(0..(NClasses - 1), 1, MaxTrials)
    /\ batches = <<>>
    /\ b_exc = "none"
    /\ RevIdle /\ SfwIdle /\ TrainIdle /\ RestIdle /\ MoreIdle

\* batches = get_exact_size_batches(n_trials, rng, batch_size)
ExactSizeBatches ==
    /\ bpc = "start"
    /\ targets = <<>>
    /\ \E i_trials \in Perms(n_trials) :
         batches' = GetExactSizeBatches(i_trials, batch_size)
    /\ bpc' = "exact_done"
    /\ UNCHANGED <<n_trials, targets, batch_size, b_exc,
                   revVars, sfwVars, trainVars, restVars, moreVars>>

\* batches = get_batches_equal_classes(targets, n_classes, rng, batch_size)
BatchesEqualClasses ==
    /\ bpc = "start"
    /\ targets # <<>>
    /\ \E sh \in Shuffles(targets) :
         LET per_cluster == BatchesPerCluster(targets, NClasses, sh, batch_size) IN
         IF CanConcatenate(per_cluster)
         THEN /\ batches' = ConcatenateAxis1(per_cluster)
              /\ bpc' = "equal_done"
              /\ b_exc' = "none"
         ELSE /\ batches' = <<>>
              /\ bpc' = "raised"
              /\ b_exc' = "ValueError"
    /\ UNCHANGED <<n_trials, targets, batch_size, revVars, sfwVars, trainVars, restVars, moreVars>>

NextBatch == ExactSizeBatches \/ BatchesEqualClasses

SpecBatch == InitBatch /\ [][NextBatch]_vars

----------------------------------------------------------------------------
(* Claims about batch construction *)

\* C9: exact-size batches. For every n_trials >= 1 and batch_size >= 1, every
\* batch returned by get_exact_size_batches has exactly batch_size indices.
C9_ExactSize ==
    bpc = "exact_done" => \A b \in DOMAIN batches : Len(batches[b]) = batch_size

\* how many indices of a batch point to an example of the class
InBatchOfClass(batch, i_cluster) ==
    Cardinality({k \in DOMAIN batch : targets[batch[k] + 1] = i_cluster})

\* every class has at least batch_size examples
ClassesFillBatch == \A c \in 0..(NClasses - 1) : ClassCount(targets, c) >= batch_size

\* C10 as claimed: with batch_size B divisible by 2, every returned batch holds
\* exactly B/2 examples of class 0 and B/2 examples of class 1, B in total
\* (stated here for targets in which every class has at least B examples).
C10_HalfPerClass ==
    (bpc = "equal_done" /\ batch_size % 2 = 0 /\ ClassesFillBatch) =>
        \A b \in DOMAIN batches :
            /\ InBatchOfClass(batches[b], 0) = batch_size \div 2
            /\ InBatchOfClass(batches[b], 1) = batch_size \div 2
            /\ Len(batches[b]) = batch_size

\* C10 amended: batch_size is the count per class. Every returned batch holds,
\* for each class, exactly batch_size examples of that class (all examples of
\* the class when it has fewer than batch_size), the classes one after the
\* other: 2 * batch_size indices when both classes have batch_size examples.
C10_BatchSizePerClass ==
    bpc = "equal_done" =>
        \A b \in DOMAIN batches :
            /\ \A c \in 0..(NClasses - 1) :
                 InBatchOfClass(batches[b], c) = Min(batch_size, ClassCount(targets, c))
            /\ ClassesFillBatch => Len(batches[b]) = NClasses * batch_size

\* balanced batches were returned for an even batch_size that both classes
\* can fill, each with batch_size examples per class
C10_Witness ==
    /\ bpc = "equal_done"
    /\ batch_size % 2 = 0
    /\ ClassesFillBatch
    /\ \E b \in DOMAIN batches :
         /\ Len(batches[b]) = 2 * batch_size
         /\ InBatchOfClass(batches[b], 0) = batch_size
         /\ InBatchOfClass(batches[b], 1) = batch_size

\* every class has at least one example
EveryClassPresent == \A c \in 0..(NClasses - 1) : ClassCount(targets, c) >= 1

\* C11: balanced batching for unequal classes. For every targets vector in
\* which each class has at least one example, whatever the per-class counts,
\* get_batches_equal_classes returns normally, and every returned batch holds
\* the same number of indices for each class, each index of a valid example.
C11_BalancedUnequal ==
    (targets # <<>> /\ EveryClassPresent) =>
        /\ bpc # "raised"
        /\ bpc = "equal_done" =>
             \A b \in DOMAIN batches :
                /\ \A k \in DOMAIN batches[b] : batches[b][k] \in 0..(Len(targets) - 1)
                /\ \A c \in 0..(NClasses - 1) :
                     InBatchOfClass(batches[b], c) = InBatchOfClass(batches[b], 0)

\* how often a value occurs in a batch, and in all returned batches
CountIn(batch, v) == Cardinality({k \in DOMAIN batch : batch[k] = v})
Occurrences(v) == SumSeq([b \in DOMAIN batches |-> CountIn(batches[b], v)])

\* C12: epoch coverage. For every n_trials >= 1 and batch_size >= 1, the
\* batches of one get_exact_size_batches call together contain every index
\* 0..n_trials-1 at least once and no index more than twice, and no index
\* occurs twice inside one batch.
C12_EpochCoverage ==
    bpc = "exact_done" =>
        /\ \A i \in 0..(n_trials - 1) : Occurrences(i) \in {1, 2}
        /\ \A b \in DOMAIN batches, i \in 0..(n_trials - 1) :
             CountIn(batches[b], i) <= 1

\* an epoch in which the last batch was filled up from the start of the
\* shuffled indices: some index occurs twice, another once
C12_Witness ==
    /\ bpc = "exact_done"
    /\ n_trials > batch_size
    /\ n_trials % batch_size # 0
    /\ Len(batches) >= 2
    /\ \E i, j \in 0..(n_trials - 1) : Occurrences(i) = 2 /\ Occurrences(j) = 1

----------------------------------------------------------------------------
(* Training steps: train_on_batch and train_on_batch_per_class.  A mixture  *)
(* weight is a fraction <<num, den>>; <<0, 0>> is NaN, the float 0 / 0.      *)
(* A std is an integer count of 1e-5.  The optimizers are not part of the   *)
(* program: a step may leave any value in the parameters it owns.           *)

ClusterIds == {1, 2}
DimIds == {1}

\* the floor 1e-4 of stds_per_dim.data.clamp_(min=1e-4), in units of 1e-5
StdFloor == 10

\* values optimizer.step() may leave in a weight, and in a std
OptWeightVals == {-1, 0, 1, 3}
OptStdVals == {-10, 0, 5, 10, 20}

NaN == <<0, 0>>
IsNaN(f) == f[2] = 0 /\ f[1] = 0
Frac(v) == <<v, 1>>

\* a + b of two floats held as fractions (denominators >= 0)
FracAdd(a, b) ==
    IF IsNaN(a) \/ IsNaN(b) THEN NaN ELSE <<a[1] * b[2] + b[1] * a[2], a[2] * b[2]>>

\* a / b of two floats, b >= 0: 0 / 0 and anything with NaN is NaN
FracDiv(a, b) ==
    IF IsNaN(a) \/ IsNaN(b) THEN NaN ELSE <<a[1] * b[2], a[2] * b[1]>>

\* th.sum over the clusters
RECURSIVE FracSum(_, _)
FracSum(ws, ids) ==
    IF ids = {} THEN Frac(0)
    ELSE LET c == CHOOSE c \in ids : TRUE
         IN FracAdd(ws[c], FracSum(ws, ids \ {c}))

\* weights_per_cluster.data.clamp_(min=0): NaN stays NaN
ClampWeights(ws) ==
    [c \in DOMAIN ws |-> IF IsNaN(ws[c]) THEN NaN ELSE <<Max(ws[c][1], 0), ws[c][2]>>]

\* weights_per_cluster.data.div_(th.sum(weights_per_cluster.data))
DivBySum(ws) ==
    LET total == FracSum(ws, DOMAIN ws) IN [c \in DOMAIN ws |-> FracDiv(ws[c], total)]

\* a clamp of the stds at 0 instead of the floor
ClampStdsAtZero(stds) ==
    [c \in DOMAIN stds |-> [d \in DOMAIN stds[c] |-> Max(stds[c][d], 0)]]

\* stds_per_dim.data.clamp_(min=1e-4)
ClampStds(stds) ==
    [c \in DOMAIN stds |-> [d \in DOMAIN stds[c] |-> Max(stds[c][d], StdFloor)]]

\* the projection of the stds at the end of train_on_batch
ProjectStdsTrainOnBatch(stds) == ClampStds(stds)

\* the end of train_on_batch_per_class: the clamp of the stds is commented out
ProjectStdsPerClass(stds) == stds

\* what the optimizer step can leave in the mixture parameters
OptOutcomes ==
    [weights : [ClusterIds -> {Frac(v) : v \in OptWeightVals}],
     stds : [ClusterIds -> [DimIds -> OptStdVals]]]

\* the weights after optimizer.step(): NaN weights stay NaN under any update
AfterStep(ws, new) ==
    [c \in DOMAIN ws |-> IF IsNaN(ws[c]) THEN NaN ELSE new[c]]

HasNaN(ws) == \E c \in DOMAIN ws : IsNaN(ws[c])

InitTrain ==
    /\ tpc = "constructed"
    /\ weights_per_cluster = [c \in ClusterIds |-> <<1, Cardinality(ClusterIds)>>]
    /\ stds_per_dim \in [ClusterIds -> [DimIds -> {v \in OptStdVals : v >= StdFloor}]]
    /\ after_opt = <<>>
    /\ events = <<>>
    /\ RevIdle /\ SfwIdle /\ BatchIdle /\ RestIdle /\ MoreIdle

\* a train_on_batch that negates the gradient of the directions only after
\* their optimizer has stepped
EventsTrainOnBatchLateNeg ==
    <<"optimizer.zero_grad", "optimizer_adv.zero_grad", "total_loss.backward",
      "optimizer.step", "optimizer_adv.step", "directions_adv.grad.neg",
      "weights.clamp", "weights.div", "stds.clamp">>

\* train_on_batch, from total_loss on: the statements in order
EventsTrainOnBatch ==
    <<"optimizer.zero_grad", "optimizer_adv.zero_grad", "total_loss.backward",
      "optimizer.step", "directions_adv.grad.neg", "optimizer_adv.step",
      "weights.clamp", "weights.div", "stds.clamp">>

\* a train_on_batch_per_class that never zeroes the gradient of the
\* unlabeled weights
EventsPerClassNoZeroGrad(has_unlabeled) ==
    <<"optimizer.zero_grad", "optimizer_adv.zero_grad", "total_loss.backward",
      "optimizer.step">>
    \o (IF has_unlabeled THEN <<"optim_unlabeled.step">> ELSE <<>>)
    \o <<"directions_adv.grad.neg", "optimizer_adv.step",
         "weights.clamp", "weights.div">>

\* train_on_batch_per_class, from total_loss on: the statements in order
EventsPerClass(has_unlabeled) ==
    (IF has_unlabeled THEN <<"optim_unlabeled.zero_grad">> ELSE <<>>)
    \o <<"optimizer.zero_grad", "optimizer_adv.zero_grad", "total_loss.backward",
         "optimizer.step">>
    \o (IF has_unlabeled THEN <<"optim_unlabeled.step">> ELSE <<>>)
    \o <<"directions_adv.grad.neg", "optimizer_adv.step",
         "weights.clamp", "weights.div">>

\* train_on_batch.  Its loss samples the mixture through sizes_from_weights,
\* which raises on NaN weights before any parameter is touched.
TrainOnBatch ==
    /\ tpc # "idle" /\ tpc # "raised"
    /\ IF HasNaN(weights_per_cluster)
       THEN /\ tpc' = "raised"
            /\ UNCHANGED <<weights_per_cluster, stds_per_dim, after_opt, events>>
       ELSE \E out \in OptOutcomes :
            /\ after_opt' = out
            /\ weights_per_cluster' = DivBySum(ClampWeights(out.weights))
            /\ stds_per_dim' = ProjectStdsTrainOnBatch(out.stds)
            /\ events' = EventsTrainOnBatch
            /\ tpc' = "train_on_batch"
    /\ UNCHANGED <<revVars, sfwVars, batchVars, restVars, moreVars>>

\* train_on_batch_per_class, with or without an optimizer of unlabeled weights
TrainOnBatchPerClass ==
    /\ tpc # "idle" /\ tpc # "raised"
    /\ \E out \in OptOutcomes, has_unlabeled \in BOOLEAN :
         /\ after_opt' = [out EXCEPT !.weights = AfterStep(weights_per_cluster, @)]
         /\ weights_per_cluster' = DivBySum(ClampWeights(after_opt'.weights))
         /\ stds_per_dim' = ProjectStdsPerClass(out.stds)
         /\ events' = EventsPerClass(has_unlabeled)
         /\ tpc' = "train_on_batch_per_class"
    /\ UNCHANGED <<revVars, sfwVars, batchVars, restVars, moreVars>>

NextTrain == TrainOnBatch \/ TrainOnBatchPerClass

SpecTrain == InitTrain /\ [][NextTrain]_vars

Stepped == tpc \in {"train_on_batch", "train_on_batch_per_class"}

\* The gradient buffers during one training step.  grad[o] tells which
\* backward passes are summed in the .grad of the parameters of optimizer o:
\* "earlier" for one of an earlier training step, "this" for the one of this
\* step.  negs counts the negations of directions_adv.grad since it was last
\* zeroed.  used[o] and negs_at[o] are what o.step() found.
Optimizers == {"optimizer", "optim_unlabeled", "optimizer_adv"}

ZeroGradOf == [o \in Optimizers |->
    CASE o = "optimizer" -> "optimizer.zero_grad"
      [] o = "optim_unlabeled" -> "optim_unlabeled.zero_grad"
      [] o = "optimizer_adv" -> "optimizer_adv.zero_grad"]

StepOf == [o \in Optimizers |->
    CASE o = "optimizer" -> "optimizer.step"
      [] o = "optim_unlabeled" -> "optim_unlabeled.step"
      [] o = "optimizer_adv" -> "optimizer_adv.step"]

NotStepped == {"not stepped"}

\* when a training step starts, every buffer holds the gradient the step
\* before left in it
GradsAtEntry ==
    [grad |-> [o \in Optimizers |-> {"earlier"}],
     negs |-> 0,
     used |-> [o \in Optimizers |-> NotStepped],
     negs_at |-> [o \in Optimizers |-> 0]]

\* the effect of one statement on the gradient buffers
GradEffect(st, e) ==
    IF \E o \in Optimizers : e = ZeroGradOf[o]
    THEN LET o == CHOOSE o \in Optimizers : e = ZeroGradOf[o]
         IN [st EXCEPT !.grad[o] = {},
                       !.negs = IF o = "optimizer_adv" THEN 0 ELSE @]
    ELSE IF e = "total_loss.backward"
    THEN [st EXCEPT !.grad = [o \in Optimizers |-> st.grad[o] \cup {"this"}]]
    ELSE IF e = "directions_adv.grad.neg"
    THEN [st EXCEPT !.negs = @ + 1]
    ELSE IF \E o \in Optimizers : e = StepOf[o]
    THEN LET o == CHOOSE o \in Optimizers : e = StepOf[o]
         IN [st EXCEPT !.used[o] = st.grad[o], !.negs_at[o] = st.negs]
    ELSE st

RECURSIVE RunEvents(_, _)
RunEvents(st, evs) ==
    IF evs = <<>> THEN st ELSE RunEvents(GradEffect(st, Head(evs)), Tail(evs))

\* the positions of a statement in the last training step
Positions(e) == {k \in DOMAIN events : events[k] = e}
Happened(e) == Positions(e) # {}
\* every occurrence of a comes before every occurrence of b
Before(a, b) == \A i \in Positions(a), j \in Positions(b) : i < j

OptimizerSteps == {StepOf[o] : o \in Optimizers}
ZeroGrads == {ZeroGradOf[o] : o \in Optimizers}
WeightProjections == {"weights.clamp", "weights.div"}

\* the order of a training step, the projection of the stds left aside:
\* zeroing, one backward pass, optimizer, optim_unlabeled if present,
\* optimizer_adv, projection of the weights; every optimizer that steps had
\* its gradient zeroed in this step and steps on the gradient of this step
StepOrder ==
    /\ Cardinality(Positions("total_loss.backward")) = 1
    /\ \A o \in Optimizers : Happened(StepOf[o]) => Happened(ZeroGradOf[o])
    /\ \A z \in ZeroGrads : Before(z, "total_loss.backward")
    /\ \A st \in OptimizerSteps : Before("total_loss.backward", st)
    /\ Cardinality(Positions("optimizer.step")) = 1
    /\ Cardinality(Positions("optimizer_adv.step")) = 1
    /\ Cardinality(Positions("optim_unlabeled.step")) <= 1
    /\ Before("optimizer.step", "optim_unlabeled.step")
    /\ Before("optimizer.step", "optimizer_adv.step")
    /\ Before("optim_unlabeled.step", "optimizer_adv.step")
    /\ \A pr \in WeightProjections :
         /\ Happened(pr)
         /\ \A st \in OptimizerSteps : Before(st, pr)
    /\ Before("weights.clamp", "weights.div")
    /\ LET run == RunEvents(GradsAtEntry, events)
       IN \A o \in Optimizers : run.used[o] \in {NotStepped, {"this"}}

\* the stds are projected, after every optimizer step
StdsProjected ==
    /\ Happened("stds.clamp")
    /\ \A st \in OptimizerSteps : Before(st, "stds.clamp")

\* C13 as claimed: in every training step of train_on_batch and of
\* train_on_batch_per_class, gradients are zeroed, the loss is backpropagated
\* once, the optimizers step in the order feature network, unlabeled weights
\* (if present), adversarial directions, and then mixture weights and stds
\* are projected; no optimizer steps on a gradient of an earlier step.
C13_StepOrderBoth == Stepped => (StepOrder /\ StdsProjected)

\* C13 amended: the order above holds in every training step of both
\* functions with the projection of the mixture weights last; the stds are
\* projected (after the optimizer steps) in train_on_batch only, and
\* train_on_batch_per_class never projects them.
C13_StepOrder ==
    /\ Stepped => StepOrder
    /\ tpc = "train_on_batch" => StdsProjected
    /\ tpc = "train_on_batch_per_class" => ~Happened("stds.clamp")

\* a train_on_batch_per_class step with an optimizer of unlabeled weights has
\* completed: all three optimizers stepped, each on this step's gradient
C13_Witness ==
    /\ tpc = "train_on_batch_per_class"
    /\ Happened("optim_unlabeled.zero_grad")
    /\ \A o \in Optimizers :
         /\ Happened(StepOf[o])
         /\ RunEvents(GradsAtEntry, events).used[o] = {"this"}

\* C14: min-max update. In every training step the gradient of directions_adv
\* is negated exactly once, after the backward pass and after the
\* feature-network (and unlabeled-weight) optimizer has stepped, and before
\* optimizer_adv.step: optimizer_adv steps on the negated gradient, the
\* others on the un-negated one.
C14_MinMaxUpdate ==
    Stepped =>
        /\ Cardinality(Positions("directions_adv.grad.neg")) = 1
        /\ Before("total_loss.backward", "directions_adv.grad.neg")
        /\ Before("optimizer.step", "directions_adv.grad.neg")
        /\ Before("optim_unlabeled.step", "directions_adv.grad.neg")
        /\ Before("directions_adv.grad.neg", "optimizer_adv.step")
        /\ LET run == RunEvents(GradsAtEntry, events)
           IN /\ run.used["optimizer_adv"] = {"this"}
              /\ run.negs_at["optimizer_adv"] = 1
              /\ run.used["optimizer"] = {"this"}
              /\ run.negs_at["optimizer"] = 0
              /\ Happened("optim_unlabeled.step") =>
                    run.negs_at["optim_unlabeled"] = 0

\* a train_on_batch step has completed in which optimizer_adv stepped on the
\* once-negated gradient of this step
C14_Witness ==
    /\ tpc = "train_on_batch"
    /\ Happened("directions_adv.grad.neg")
    /\ RunEvents(GradsAtEntry, events).negs_at["optimizer_adv"] = 1
    /\ RunEvents(GradsAtEntry, events).negs_at["optimizer"] = 0

----------------------------------------------------------------------------
(* Claims about the training step *)

\* C7: mixture weight simplex invariant. After every completed training step,
\* whatever the optimizer step left in weights_per_cluster (all weights <= 0
\* included), every weight is >= 0 and the weights sum to 1.
C7_Simplex ==
    Stepped =>
        /\ \A c \in ClusterIds :
             /\ ~IsNaN(weights_per_cluster[c])
             /\ weights_per_cluster[c][2] > 0
             /\ weights_per_cluster[c][1] >= 0
        /\ LET total == FracSum(weights_per_cluster, ClusterIds)
           IN total[1] = total[2] /\ total[2] > 0

\* C8 as claimed: after every completed training step of either function,
\* every entry of stds_per_dim is at least the floor 1e-4.
C8_StdFloorBoth ==
    Stepped => \A c \in ClusterIds, d \in DimIds : stds_per_dim[c][d] >= StdFloor

\* C8 amended: after every completed train_on_batch step every entry of
\* stds_per_dim is at least the floor 1e-4, whatever the optimizer step left;
\* train_on_batch_per_class leaves the stds as the optimizer step left them.
C8_StdFloor ==
    /\ tpc = "train_on_batch" =>
         \A c \in ClusterIds, d \in DimIds :
             /\ stds_per_dim[c][d] >= StdFloor
             /\ stds_per_dim[c][d] = Max(after_opt.stds[c][d], StdFloor)
    /\ tpc = "train_on_batch_per_class" => stds_per_dim = after_opt.stds

\* a train_on_batch step has completed in which the optimizer had left a std
\* below the floor
C8_Witness ==
    /\ tpc = "train_on_batch"
    /\ \E c \in ClusterIds, d \in DimIds :
         after_opt.stds[c][d] < StdFloor /\ stds_per_dim[c][d] = StdFloor

----------------------------------------------------------------------------
(* Directions of projection.  A row of a direction matrix is an integer     *)
(* vector v with a squared divisor d2: the float vector v / sqrt(d2).  A    *)
(* row with d2 = 0 is what 0 / 0 leaves, NaN.                               *)

MaxDirs == 2

\* coordinates of the directions a caller passes, in 2 dims
DirCoordVals == {-1, 0, 2}
DirVectors == DirCoordVals \X DirCoordVals
\* means of a cluster
MeanVals == {<<0, 0>>, <<1, 2>>}

SumSq(v) == SumSeq([k \in DOMAIN v |-> v[k] * v[k]])

\* a tensor of rows as the caller holds it
RawRows(rows) == [k \in DOMAIN rows |-> [v |-> rows[k], d2 |-> 1]]

\* th.norm(row, p=2) is 1
IsUnit(row) == row.d2 > 0 /\ SumSq(row.v) = row.d2

\* norm_and_var_directions: every row divided by its norm
\* (v / sqrt(d2)) / sqrt(SumSq(v) / d2) = v / sqrt(SumSq(v)), and 0 / 0 for a zero row
NormAndVarDirections(rows) ==
    [k \in DOMAIN rows |-> [v |-> rows[k].v, d2 |-> SumSq(rows[k].v)]]

\* sample_directions(2, orthogonalize=True): the rows of Q of a QR
\* decomposition, which are orthonormal, divided by their norm
SampleDirections ==
    {NormAndVarDirections(<<[v |-> <<q[1], q[2]>>, d2 |-> SumSq(q)],
                            [v |-> <<-q[2], q[1]>>, d2 |-> SumSq(q)]>>) :
        q \in {<<1, 0>>, <<0, 1>>, <<3, 4>>}}

\* the first lines of sample_transport_loss, analytical_l2_cdf_loss and
\* transport_loss_per_class: sampled if None, else normalized
DirectionsOrSampled(dirs, sampled) ==
    IF dirs = <<>> THEN sampled ELSE NormAndVarDirections(dirs)

\* means_per_dim[1] - means_per_dim[0]
MeanDiff(means) == [k \in DOMAIN means[1] |-> means[2][k] - means[1][k]]

\* the a_dir values compute_class_trans_loss passes on, for
\* dirs = [None, None, norm_and_var_directions(directions_adv)], s1 and s2
\* being what sample_directions returns for the two None
ClassTransLossDirs(directions_adv, means, add_mean_diff_directions, s1, s2) ==
    LET dirs == <<s1, s2, NormAndVarDirections(RawRows(directions_adv))>>
    IN [k \in 1..3 |->
          IF add_mean_diff_directions
          THEN dirs[k] \o RawRows(<<MeanDiff(means)>>)
          ELSE dirs[k]]

\* the one a_dir it passes on when batch_y is None, for
\* dirs = [mean_diff.unsqueeze(0)] and add_mean_diff_directions
ClassTransLossDirsNoTargets(means) ==
    <<RawRows(<<MeanDiff(means)>>) \o RawRows(<<MeanDiff(means)>>)>>

InitDir ==
    /\ dpc = "start"
    /\ directions \in {<<>>} \cup SeqsOf(DirVectors, 1, MaxDirs)
    /\ means_per_dim \in [1..2 -> MeanVals]
    /\ projected_onto = <<>> /\ d_exc = "none"
    /\ RevIdle /\ SfwIdle /\ BatchIdle /\ TrainIdle /\ LossIdle /\ MixIdle /\ MoreIdle

\* sample_transport_loss(..., directions=directions)
SampleTransportLoss ==
    /\ dpc = "start"
    /\ \E sampled \in SampleDirections :
         projected_onto' = <<DirectionsOrSampled(RawRows(directions), sampled)>>
    /\ dpc' = "sample_transport_loss"
    /\ UNCHANGED <<directions, means_per_dim, d_exc,
                   revVars, sfwVars, batchVars, trainVars, lossVars, mixVars, moreVars>>

\* analytical_l2_cdf_loss(..., directions=directions)
AnalyticalL2CdfLoss ==
    /\ dpc = "start"
    /\ \E sampled \in SampleDirections :
         projected_onto' = <<DirectionsOrSampled(RawRows(directions), sampled)>>
    /\ dpc' = "analytical_l2_cdf_loss"
    /\ UNCHANGED <<directions, means_per_dim, d_exc,
                   revVars, sfwVars, batchVars, trainVars, lossVars, mixVars, moreVars>>

\* transport_loss_per_class(..., directions=directions)
TransportLossPerClassDirections ==
    /\ dpc = "start"
    /\ \E sampled \in SampleDirections :
         projected_onto' = <<DirectionsOrSampled(RawRows(directions), sampled)>>
    /\ dpc' = "transport_loss_per_class"
    /\ UNCHANGED <<directions, means_per_dim, d_exc,
                   revVars, sfwVars, batchVars, trainVars, lossVars, mixVars, moreVars>>

\* compute_class_trans_loss(..., directions_adv=directions, batch_y).  With
\* a batch_y: three calls of transport_loss_per_class, each with directions
\* given.  With batch_y None and add_mean_diff_directions: one call, which
\* projects and then fails on its targets, None; without
\* add_mean_diff_directions mean_diff is not bound, and nothing is called.
ComputeClassTransLoss ==
    /\ dpc = "start"
    /\ directions # <<>>
    /\ \E s1 \in SampleDirections, s2 \in SampleDirections,
          add_mean_diff_directions \in BOOLEAN, batch_y_is_none \in BOOLEAN :
         IF ~batch_y_is_none
         THEN /\ LET a_dirs == ClassTransLossDirs(directions, means_per_dim,
                                                  add_mean_diff_directions, s1, s2)
                 IN projected_onto' =
                        [k \in 1..3 |-> DirectionsOrSampled(a_dirs[k], s1)]
              /\ dpc' = "compute_class_trans_loss"
              /\ UNCHANGED d_exc
         ELSE IF add_mean_diff_directions
         THEN /\ projected_onto' =
                    <<DirectionsOrSampled(
                          ClassTransLossDirsNoTargets(means_per_dim)[1], s1)>>
              /\ dpc' = "raised"
              /\ d_exc' = "AttributeError"
         ELSE /\ UNCHANGED projected_onto
              /\ dpc' = "raised"
              /\ d_exc' = "UnboundLocalError"
    /\ UNCHANGED <<directions, means_per_dim,
                   revVars, sfwVars, batchVars, trainVars, lossVars, mixVars, moreVars>>

\* w2_for_dist_w2_normalized_for_model(outs, directions, ...):
\* th.mm(outs, directions.t()) on the argument as it came
W2ForDistW2NormalizedForModel ==
    /\ dpc = "start"
    /\ directions # <<>>
    /\ projected_onto' = <<RawRows(directions)>>
    /\ dpc' = "w2_for_dist_w2_normalized_for_model"
    /\ UNCHANGED <<directions, means_per_dim, d_exc,
                   revVars, sfwVars, batchVars, trainVars, lossVars, mixVars, moreVars>>

NextDir ==
    \/ SampleTransportLoss
    \/ AnalyticalL2CdfLoss
    \/ TransportLossPerClassDirections
    \/ ComputeClassTransLoss
    \/ W2ForDistW2NormalizedForModel

SpecDir == InitDir /\ [][NextDir]_vars

----------------------------------------------------------------------------
(* Claims about the directions *)

\* no caller-supplied direction and no difference of means is the zero vector
NonzeroDirections ==
    /\ \A k \in DOMAIN directions : SumSq(directions[k]) > 0
    /\ SumSq(MeanDiff(means_per_dim)) > 0

\* C15: unit-norm directions. In every loss function that takes a directions
\* argument (sample_transport_loss, transport_loss_per_class with the
\* mean-difference direction of compute_class_trans_loss appended,
\* analytical_l2_cdf_loss, w2_for_dist_w2_normalized_for_model) every row of
\* the matrix the samples are projected onto has unit length (stated here for
\* non-zero caller directions and a non-zero difference of means).
C15_UnitNormDirections ==
    (dpc \notin {"idle", "start"} /\ NonzeroDirections) =>
        \A m \in DOMAIN projected_onto :
            \A k \in DOMAIN projected_onto[m] : IsUnit(projected_onto[m][k])

----------------------------------------------------------------------------
(* The loop over the clusters of transport_loss_per_class, and the          *)
(* empirical cdf of analytical_l2_cdf_loss_given_sorted_samples.            *)
(* Probabilities are fractions <<num, den>> with den > 0.                   *)

MaxSamples == 4
MaxUnlabeled == 2

\* n_clusters, asserted to be 2
NClusters == 2

\* th.linspace(start, end, steps) for start and end over one denominator:
\* the single value start when steps = 1
Linspace(start, end, steps) ==
    IF steps = 1 THEN <<start>>
    ELSE [k \in 1..steps |->
            <<start[1] * (steps - 1) + (k - 1) * (end[1] - start[1]),
              start[2] * (steps - 1)>>]

\* th.linspace(1 / n, 1 - 1 / n, n), n >= 1
EmpiricalCdf(n) == Linspace(<<1, n>>, <<n - 1, n>>, n)

\* sqrt(2) * erfinv(2 * p - 1) is a finite number: erfinv is infinite at -1, 1
QuantileFinite(p) == 0 < p[1] /\ p[1] < p[2]

\* len(this_samples): the samples whose target is the cluster
SamplesOfCluster(tgts, c) == Cardinality({k \in DOMAIN tgts : tgts[k] = c})

InitLoss ==
    /\ \/ /\ lpc = "tlpc_called"
          /\ labeled_targets \in SeqsOf(0..(NClusters - 1), 1, MaxSamples)
          /\ n_unlabeled \in 0..MaxUnlabeled
          /\ n_sorted = 0
       \/ /\ lpc = "cdf_called"
          /\ labeled_targets = <<>>
          /\ n_unlabeled = 0
          /\ n_sorted \in 1..MaxSamples
    /\ all_targets = <<>> /\ i_clust = 0 /\ n_samples = 0
    /\ empirical_cdf = <<>> /\ loss_finite = TRUE /\ l_exc = "none"
    /\ RevIdle /\ SfwIdle /\ BatchIdle /\ TrainIdle /\ DirIdle /\ MixIdle /\ MoreIdle

\* transport_loss_per_class up to the loop: th.bernoulli gives every
\* unlabeled sample a target 0 or 1 (its probability is clamped into
\* [0.01, 0.99]), appended to the labeled targets
TlpcAssignTargets ==
    /\ lpc = "tlpc_called"
    /\ \E targets_unlabelled \in [1..n_unlabeled -> 0..(NClusters - 1)] :
         all_targets' = labeled_targets \o targets_unlabelled
    /\ lpc' = "loop"
    /\ i_clust' = 0
    /\ UNCHANGED <<labeled_targets, n_unlabeled, n_sorted, n_samples,
                   empirical_cdf, loss_finite, l_exc,
                   revVars, sfwVars, batchVars, trainVars, dirVars, mixVars, moreVars>>

\* one iteration of `for i_cluster in range(n_clusters)`: 1 / n_samples is a
\* division of python ints
TlpcCluster ==
    /\ lpc = "loop"
    /\ i_clust < NClusters
    /\ n_samples' = SamplesOfCluster(all_targets, i_clust)
    /\ IF n_samples' = 0
       THEN /\ lpc' = "raised"
            /\ l_exc' = "ZeroDivisionError"
            /\ UNCHANGED <<i_clust, empirical_cdf, loss_finite>>
       ELSE /\ empirical_cdf' = EmpiricalCdf(n_samples')
            /\ loss_finite' =
                 (loss_finite /\ \A k \in DOMAIN empirical_cdf' :
                                     QuantileFinite(empirical_cdf'[k]))
            /\ i_clust' = i_clust + 1
            /\ UNCHANGED <<lpc, l_exc>>
    /\ UNCHANGED <<labeled_targets, n_unlabeled, n_sorted, all_targets,
                   revVars, sfwVars, batchVars, trainVars, dirVars, mixVars, moreVars>>

\* loss = loss / n_clusters; return loss
TlpcReturn ==
    /\ lpc = "loop"
    /\ i_clust = NClusters
    /\ lpc' = "returned"
    /\ UNCHANGED <<labeled_targets, n_unlabeled, n_sorted, all_targets, i_clust,
                   n_samples, empirical_cdf, loss_finite, l_exc,
                   revVars, sfwVars, batchVars, trainVars, dirVars, mixVars, moreVars>>

\* analytical_l2_cdf_loss_given_sorted_samples: the empirical cdf is compared
\* with the analytical cdf, no quantile is taken
AnalyticalCdfLossGivenSorted ==
    /\ lpc = "cdf_called"
    /\ n_samples' = n_sorted
    /\ empirical_cdf' = EmpiricalCdf(n_sorted)
    /\ lpc' = "cdf_done"
    /\ UNCHANGED <<labeled_targets, n_unlabeled, n_sorted, all_targets, i_clust,
                   loss_finite, l_exc,
                   revVars, sfwVars, batchVars, trainVars, dirVars, mixVars, moreVars>>

NextLoss ==
    \/ TlpcAssignTargets
    \/ TlpcCluster
    \/ TlpcReturn
    \/ AnalyticalCdfLossGivenSorted

SpecLoss == InitLoss /\ [][NextLoss]_vars

----------------------------------------------------------------------------
(* Claims about the per-class loss *)

\* C16: empirical probabilities stay inside the open interval. For every
\* sample count n >= 1 (n = 1 and n = 2 included) each of the n values of
\* linspace(1/n, 1 - 1/n, n) built in transport_loss_per_class and in
\* analytical_l2_cdf_loss_given_sorted_samples is > 0 and < 1, so the
\* quantile sqrt(2) * erfinv(2p - 1) is finite.
C16_OpenInterval ==
    /\ \A k \in DOMAIN empirical_cdf :
         /\ 0 < empirical_cdf[k][1]
         /\ empirical_cdf[k][1] < empirical_cdf[k][2]
    /\ loss_finite

\* one of the two clusters receives no sample in the call
SomeClusterEmpty ==
    \E c \in 0..(NClusters - 1) : SamplesOfCluster(all_targets, c) = 0

\* C19: an empty per-cluster sample set is guarded. When one of the two
\* clusters receives no sample in a call of transport_loss_per_class (no
\* labeled target and no Bernoulli target equals it), the computation reaches
\* no division by zero and no error.
C19_EmptyClusterGuarded ==
    (lpc \in {"loop", "returned", "raised"} /\ SomeClusterEmpty) =>
        (lpc # "raised" /\ l_exc = "none")

----------------------------------------------------------------------------
(* sample_mixture_gaussian(sizes_per_cluster, means_per_dim, stds_per_dim)  *)
(* in one dimension.  A returned row is kept with the cluster it was drawn  *)
(* for; th.randn may give any value, the model draws from two.              *)

MaxMix == 3
MaxPartSize == 2

\* values th.randn leaves in a sample
NoiseVals == {-1, 1}

\* mean and std of cluster k (clusters counted from 1)
MixMean(k) == 10 * k
MixStd(k) == k

\* samples * std.unsqueeze(0) + mean.unsqueeze(0) for the n_samples rows of
\* cluster k; noise holds the values of th.randn, offset rows were drawn before
PartOfCluster(k, n, noise, offset) ==
    [j \in 1..n |-> [cluster |-> k, value |-> noise[offset + j] * MixStd(k) + MixMean(k)]]

\* the parts of the clusters from k on, in reverse order of the clusters
RECURSIVE PartsReversedFrom(_, _, _, _)
PartsReversedFrom(sizes, k, noise, offset) ==
    IF k > Len(sizes) THEN <<>>
    ELSE PartsReversedFrom(sizes, k + 1, noise, offset + sizes[k])
         \o PartOfCluster(k, sizes[k], noise, offset)

\* th.cat(parts, dim=0) for the clusters from k on: a cluster of size 0 adds
\* no part
RECURSIVE PartsFrom(_, _, _, _)
PartsFrom(sizes, k, noise, offset) ==
    IF k > Len(sizes) THEN <<>>
    ELSE PartOfCluster(k, sizes[k], noise, offset)
         \o PartsFrom(sizes, k + 1, noise, offset + sizes[k])

\* the exception of a call, "none" if it returns: the assert of the first
\* negative size; th.cat of no part at all
MixtureException(sizes) ==
    IF \E k \in DOMAIN sizes : sizes[k] < 0 THEN "AssertionError"
    ELSE IF \A k \in DOMAIN sizes : sizes[k] = 0 THEN "RuntimeError"
    ELSE "none"

\* how many values of th.randn a call draws
NoiseLen(sizes) == IF MixtureException(sizes) = "none" THEN SumSeq(sizes) ELSE 0

InitMix ==
    /\ mpc = "start"
    /\ sizes_per_cluster \in SeqsOf(-1..MaxPartSize, 1, MaxMix)
    /\ all_samples = <<>>
    /\ m_exc = "none"
    /\ RevIdle /\ SfwIdle /\ BatchIdle /\ TrainIdle /\ DirIdle /\ LossIdle /\ MoreIdle

\* all_samples = sample_mixture_gaussian(sizes_per_cluster, means, stds)
SampleMixtureGaussian ==
    /\ mpc = "start"
    /\ m_exc' = MixtureException(sizes_per_cluster)
    /\ IF m_exc' = "none"
       THEN /\ \E noise \in [1..NoiseLen(sizes_per_cluster) -> NoiseVals] :
                 all_samples' = PartsFrom(sizes_per_cluster, 1, noise, 0)
            /\ mpc' = "done"
       ELSE /\ all_samples' = <<>>
            /\ mpc' = "raised"
    /\ UNCHANGED <<sizes_per_cluster,
                   revVars, sfwVars, batchVars, trainVars, dirVars, lossVars, moreVars>>

NextMix == SampleMixtureGaussian

SpecMix == InitMix /\ [][NextMix]_vars

----------------------------------------------------------------------------
(* Claims about sample_mixture_gaussian *)

RowsOfCluster(k) ==
    Cardinality({a \in DOMAIN all_samples : all_samples[a].cluster = k})

\* C20: for non-negative integer sizes (one per cluster) with a positive
\* total, sample_mixture_gaussian skips clusters of size 0 without error and
\* returns exactly sum(sizes) rows, sizes[k] of them drawn for cluster k, all
\* rows of cluster i before all rows of cluster j whenever i < j; a negative
\* size ends in an assertion error.
C20_MixtureRows ==
    mpc \in {"done", "raised"} =>
        /\ (/\ \A k \in DOMAIN sizes_per_cluster : sizes_per_cluster[k] >= 0
            /\ SumSeq(sizes_per_cluster) > 0)
           => /\ mpc = "done" /\ m_exc = "none"
              /\ Len(all_samples) = SumSeq(sizes_per_cluster)
              /\ \A k \in DOMAIN sizes_per_cluster :
                   RowsOfCluster(k) = sizes_per_cluster[k]
              /\ \A a, b \in DOMAIN all_samples :
                   a < b => all_samples[a].cluster <= all_samples[b].cluster
              /\ \A a \in DOMAIN all_samples :
                   Abs(all_samples[a].value - MixMean(all_samples[a].cluster))
                       = MixStd(all_samples[a].cluster)
        /\ (\E k \in DOMAIN sizes_per_cluster : sizes_per_cluster[k] < 0)
           => mpc = "raised" /\ m_exc = "AssertionError"

\* a call returned rows of two clusters with a cluster of size 0 in between
C20_Witness ==
    /\ mpc = "done"
    /\ Len(sizes_per_cluster) = 3
    /\ sizes_per_cluster[1] > 0 /\ sizes_per_cluster[2] = 0 /\ sizes_per_cluster[3] > 0
    /\ Len(all_samples) = sizes_per_cluster[1] + sizes_per_cluster[3]
    /\ all_samples[1].cluster = 1
    /\ all_samples[Len(all_samples)].cluster = 3

----------------------------------------------------------------------------
(* OptimizerUnlabelled.  The weights, their gradient and the history are   *)
(* float32 tensors; lr and alpha are Python numbers, which torch casts to   *)
(* float32 when they meet a tensor.                                         *)

MaxUnlSteps == 2

\* numbers of unlabeled examples, prior weights, gradients and parameters
NUnlabeledVals == {1, 2}
PriorWeightVals ==
    {FCast[Float32, FRat[Float64, 1, 100]], FHalf,
     FCast[Float32, FRat[Float64, 99, 100]]}
GradVals == {-1, 0, 1}
LrVals == {1, 10}
AlphaVals == {FRat[Float64, 1, 2], FRat[Float64, 1, 10]}

\* the entries of w added in their order in doubles
RECURSIVE FSumWide(_)
FSumWide(w) ==
    IF w = <<>> THEN FZero
    ELSE FAdd[Float64, FSumWide(SubSeq(w, 1, Len(w) - 1)), w[Len(w)]]

\* th.sum(w, dim=0) of a float32 tensor: accumulated in a double
FSum[w \in Seq(Float)] == FCast[Float32, FSumWide(w)]

\* th.mean(w, dim=0)
FMean[w \in Seq(Float)] == FDiv[Float32, FSum[w], FInt[Float32, Len(w)]]

\* (1 - alpha) * old + alpha * |grad|, 1 - alpha being a Python float
MovingAverage(a, old, g) ==
    FAdd[Float32,
         FMul[Float32, FCast[Float32, FSub[Float64, FInt[Float64, 1], a]], old],
         FMul[Float32, FCast[Float32, a], FAbs[FInt[Float32, g]]]]

\* a moving average that is written to the history column of the other sign
GradHistAfterSwapped(hist, grad, a) ==
    [i \in DOMAIN hist |->
        <<IF grad[i] < 0 THEN MovingAverage(a, hist[i][1], grad[i]) ELSE hist[i][1],
          IF grad[i] > 0 THEN MovingAverage(a, hist[i][2], grad[i]) ELSE hist[i][2]>>]

\* grad_hist_unlabeled after the two masked updates of step: column 0 where
\* the gradient is > 0, column 1 where it is < 0
GradHistAfter(hist, grad, a) ==
    [i \in DOMAIN hist |->
        <<IF grad[i] > 0 THEN MovingAverage(a, hist[i][1], grad[i]) ELSE hist[i][1],
          IF grad[i] < 0 THEN MovingAverage(a, hist[i][2], grad[i]) ELSE hist[i][2]>>]

\* gradient_unlabeled of step.  With always_accumulate it starts at zero and
\* is set where the gradient is > 0 (|grad| minus column 1 as read then) and
\* where it is < 0 (column 0 minus |grad|); without, it is column 0 - column 1
GradientUnlabeled(hist, grad, a, accumulate) ==
    LET after == GradHistAfter(hist, grad, a) IN
    [i \in DOMAIN hist |->
        IF accumulate
        THEN IF grad[i] > 0
             THEN FSub[Float32, FAbs[FInt[Float32, grad[i]]], hist[i][2]]
             ELSE IF grad[i] < 0
             THEN FAdd[Float32, FNeg[FAbs[FInt[Float32, grad[i]]]], after[i][1]]
             ELSE FZero
        ELSE FSub[Float32, after[i][1], after[i][2]]]

\* data - lr * gradient_unlabeled
MovedWeights(w, gradient_unlabeled, rate) ==
    [i \in DOMAIN w |->
        FSub[Float32, w[i], FMul[Float32, FInt[Float32, rate], gradient_unlabeled[i]]]]

\* data / (th.mean(data, dim=0, keepdim=True) * 2)
Recentered(w) ==
    LET twice_mean == FMul[Float32, FMean[w], FInt[Float32, 2]]
    IN [i \in DOMAIN w |-> FDiv[Float32, w[i], twice_mean]]

\* th.clamp(data, min=0.01, max=0.99)
ClampUnlabeled(w) ==
    [i \in DOMAIN w |->
        FClamp[w[i], FCast[Float32, FRat[Float64, 1, 100]],
               FCast[Float32, FRat[Float64, 99, 100]]]]

InitUnl ==
    /\ upc = "constructed"
    /\ \E n \in NUnlabeledVals :
         /\ unlabeled_cluster_weights \in [1..n -> PriorWeightVals]
         /\ grad_hist_unlabeled = [i \in 1..n |-> <<FZero, FZero>>]
    /\ lr \in LrVals
    /\ alpha \in AlphaVals
    /\ always_accumulate \in BOOLEAN
    /\ unl_grad = <<>> /\ unl_before = <<>> /\ unl_steps = 0
    /\ RevIdle /\ SfwIdle /\ BatchIdle /\ TrainIdle /\ RestIdle /\ CdfIdle
    /\ PsmsIdle /\ EnergyIdle

\* OptimizerUnlabelled.step() after a backward pass left grad in the weights
OptimizerUnlabelledStep ==
    /\ upc \in {"constructed", "stepped"}
    /\ unl_steps < MaxUnlSteps
    /\ \E grad \in [DOMAIN unlabeled_cluster_weights -> GradVals] :
         /\ unl_grad' = grad
         /\ grad_hist_unlabeled' = GradHistAfter(grad_hist_unlabeled, grad, alpha)
         /\ unlabeled_cluster_weights' =
              ClampUnlabeled(Recentered(MovedWeights(
                  unlabeled_cluster_weights,
                  GradientUnlabeled(grad_hist_unlabeled, grad, alpha, always_accumulate),
                  lr)))
    /\ unl_before' = [weights |-> unlabeled_cluster_weights,
                      hist |-> grad_hist_unlabeled]
    /\ unl_steps' = unl_steps + 1
    /\ upc' = "stepped"
    /\ UNCHANGED <<lr, alpha, always_accumulate,
                   revVars, sfwVars, batchVars, trainVars, restVars, cdfVars,
                   psmsVars, energyVars>>

NextUnl == OptimizerUnlabelledStep

SpecUnl == InitUnl /\ [][NextUnl]_vars

----------------------------------------------------------------------------
(* Claims about OptimizerUnlabelled *)

\* C21: unlabeled weights stay in range. After every OptimizerUnlabelled.step,
\* for any gradient values and any prior weights, every entry of
\* unlabeled_cluster_weights lies in [0.01, 0.99], the bounds being the
\* float32 numbers nearest to 0.01 and 0.99.
C21_UnlabeledInRange ==
    upc = "stepped" =>
        \A i \in DOMAIN unlabeled_cluster_weights :
            /\ FIsFinite(unlabeled_cluster_weights[i])
            /\ ~FLess[unlabeled_cluster_weights[i],
                      FCast[Float32, FRat[Float64, 1, 100]]]
            /\ ~FLess[FCast[Float32, FRat[Float64, 99, 100]],
                      unlabeled_cluster_weights[i]]

\* C26: sign-split moving averages in OptimizerUnlabelled.step with
\* always_accumulate=False. For an example whose gradient is > 0 only history
\* column 0 changes, to (1-alpha)*old + alpha*|grad|; for a gradient < 0 only
\* column 1 changes, by the same formula; for a gradient of 0 neither column
\* changes. The weight is then moved by -lr * (column 0 - column 1) before
\* re-centering and clamping.
C26_SignSplitAverages ==
    (upc = "stepped" /\ ~always_accumulate) =>
        /\ \A i \in DOMAIN unl_grad :
             LET old == unl_before.hist[i]
                 new == grad_hist_unlabeled[i]
                 avg(o) ==
                     FAdd[Float32,
                          FMul[Float32,
                               FCast[Float32, FSub[Float64, FInt[Float64, 1], alpha]],
                               o],
                          FMul[Float32, FCast[Float32, alpha],
                               FInt[Float32, Abs(unl_grad[i])]]]
             IN /\ unl_grad[i] > 0 => (new[1] = avg(old[1]) /\ new[2] = old[2])
                /\ unl_grad[i] < 0 => (new[2] = avg(old[2]) /\ new[1] = old[1])
                /\ unl_grad[i] = 0 => new = old
        /\ LET moved == [i \in DOMAIN unl_grad |->
                            FSub[Float32, unl_before.weights[i],
                                 FMul[Float32, FInt[Float32, lr],
                                      FSub[Float32, grad_hist_unlabeled[i][1],
                                           grad_hist_unlabeled[i][2]]]]]
           IN unlabeled_cluster_weights = ClampUnlabeled(Recentered(moved))

\* a second step has been made in which one example had a gradient > 0 on a
\* history that was not zero, and another a gradient < 0
C26_Witness ==
    /\ upc = "stepped" /\ ~always_accumulate /\ unl_steps = 2
    /\ \E i, j \in DOMAIN unl_grad :
         /\ unl_grad[i] > 0 /\ unl_before.hist[i][1] # FZero
         /\ grad_hist_unlabeled[i][1] # unl_before.hist[i][1]
         /\ unl_grad[j] < 0 /\ grad_hist_unlabeled[j][2] # FZero

----------------------------------------------------------------------------
(* multi_directions_gaussian_cdfs(x, means, stds, weights) for one          *)
(* direction, x, means, stds and weights being float32 tensors.            *)

MaxPoints == 2

PointVals == {-2, 0, 2, 4}
CdfMeanVals == {0, 2}
\* a std of 0 is clamped to eps = 1e-6
CdfStdVals == {0, 1, 2}
CdfWeightVals == {-1, 0, 1, 2}
CdfClusters == {1, 2}

\* np.sqrt(2), a float64
Sqrt2 == <<0, <<15309, 6652, 2534, 1448>>, -52>>

\* th.erf at the float32 arguments (x - mean) / (std * np.sqrt(2)) of whole
\* x - mean in 1..8 and std in 1..4 that are below 3.92: <<argument, the
\* float32 that erff of the C library returns for it>>.  This is the float32
\* nearest to the erf of the argument, but for the first entry, where erff
\* returns the float32 below the nearest one.
ErfTable ==
    {<<<<0, <<1267, 724>>, -26>>, <<0, <<4933, 404>>, -25>>>>,
     <<<<0, <<5567, 60>>, -22>>, <<0, <<11339, 133>>, -23>>>>,
     <<<<0, <<1267, 724>>, -25>>, <<0, <<943, 196>>, -23>>>>,
     <<<<0, <<5567, 60>>, -21>>, <<0, <<14669, 506>>, -24>>>>,
     <<<<0, <<951, 543>>, -24>>, <<0, <<6127, 4>>, -17>>>>,
     <<<<0, <<1267, 724>>, -24>>, <<0, <<1213, 699>>, -24>>>>,
     <<<<0, <<317, 181>>, -22>>, <<0, <<8799, 349>>, -23>>>>,
     <<<<0, <<9315, 56>>, -20>>, <<0, <<13347, 403>>, -23>>>>,
     <<<<0, <<5567, 60>>, -20>>, <<0, <<4913, 209>>, -22>>>>,
     <<<<0, <<951, 543>>, -23>>, <<0, <<2931, 887>>, -24>>>>,
     <<<<0, <<11451, 301>>, -22>>, <<0, <<1027, 463>>, -23>>>>,
     <<<<0, <<9301, 633>>, -23>>, <<0, <<16047, 470>>, -23>>>>,
     <<<<0, <<1267, 724>>, -23>>, <<0, <<2883, 122>>, -21>>>>,
     <<<<0, <<317, 181>>, -21>>, <<0, <<2883, 122>>, -21>>>>,
     <<<<0, <<6201, 422>>, -22>>, <<0, <<15967, 250>>, -22>>>>,
     <<<<0, <<9315, 56>>, -19>>, <<0, <<10507, 505>>, -23>>>>,
     <<<<0, <<5567, 60>>, -19>>, <<0, <<1273, 508>>, -23>>>>,
     <<<<0, <<951, 543>>, -22>>, <<0, <<3857, 1021>>, -24>>>>,
     <<<<0, <<9301, 633>>, -22>>, <<0, <<12481, 511>>, -23>>>>,
     <<<<0, <<1267, 724>>, -22>>, <<0, <<15321, 1023>>, -24>>>>,
     <<<<0, <<9315, 56>>, -18>>, <<0, <<16379, 511>>, -23>>>>}

\* th.erf(a) of a float32: odd, and 1 from 3.9192059 on
Erf[a \in Float] ==
    IF FIsNaN(a) \/ FIsZero(a) THEN a
    ELSE IF ~FMagLess[a, <<0, <<5189, 1003>>, -22>>] THEN <<a[1], <<1>>, 0>>
    ELSE LET entry == CHOOSE t \in ErfTable : t[1] = FAbs[a]
         IN <<a[1], entry[2][2], entry[2][3]>>

\* th.clamp(stds, min=eps)
ClampStd[std \in Float] ==
    IF FLess[std, FCast[Float32, FRat[Float64, 1, 1000000]]]
    THEN FCast[Float32, FRat[Float64, 1, 1000000]]
    ELSE std

\* 0.5 * (1 + th.erf((x - mean) / (std * np.sqrt(2)))) of one point and one
\* cluster, std being clamped
ClusterCdf[point \in Int, mean \in Int, std \in Float] ==
    FMul[Float32, FHalf,
         FAdd[Float32, FOne,
              Erf[FDiv[Float32,
                       FSub[Float32, FInt[Float32, point], FInt[Float32, mean]],
                       FMul[Float32, std, FCast[Float32, Sqrt2]]]]]]

\* cdfs of one point, one per cluster
ClusterCdfs(point, means, stds) ==
    [c \in DOMAIN means |->
        ClusterCdf[point, means[c], ClampStd[FInt[Float32, stds[c]]]]]

\* weights / th.sum(weights)
NormedWeights(ws) ==
    [c \in DOMAIN ws |-> FDiv[Float32, FInt[Float32, ws[c]], FInt[Float32, SumSeq(ws)]]]

\* th.sum(cdfs * weights, dim=2) at one point
MixtureCdf(point, means, stds, ws) ==
    LET cdfs == ClusterCdfs(point, means, stds)
        normed == NormedWeights(ws)
    IN FSum[[c \in DOMAIN means |-> FMul[Float32, cdfs[c], normed[c]]]]

InitCdf ==
    /\ cpc = "called"
    /\ cdf_x \in SeqsOf(PointVals, MaxPoints, MaxPoints)
    /\ cdf_means \in [CdfClusters -> CdfMeanVals]
    /\ cdf_stds \in [CdfClusters -> CdfStdVals]
    /\ cdf_weights \in [CdfClusters -> CdfWeightVals]
    /\ cdf = <<>>
    /\ RevIdle /\ SfwIdle /\ BatchIdle /\ TrainIdle /\ RestIdle /\ UnlIdle
    /\ PsmsIdle /\ EnergyIdle

\* cdf = multi_directions_gaussian_cdfs(x, means, stds, weights)
MultiDirectionsGaussianCdfs ==
    /\ cpc = "called"
    /\ cdf' = [k \in DOMAIN cdf_x |->
                  MixtureCdf(cdf_x[k], cdf_means, cdf_stds, cdf_weights)]
    /\ cpc' = "done"
    /\ UNCHANGED <<cdf_x, cdf_means, cdf_stds, cdf_weights,
                   revVars, sfwVars, batchVars, trainVars, restVars, unlVars,
                   psmsVars, energyVars>>

NextCdf == MultiDirectionsGaussianCdfs

SpecCdf == InitCdf /\ [][NextCdf]_vars

----------------------------------------------------------------------------
(* Claims about multi_directions_gaussian_cdfs *)

\* C22: cdf monotonicity. For fixed means, stds and weights,
\* multi_directions_gaussian_cdfs is non-decreasing in each coordinate of x
\* (x1 <= x2 implies cdf(x1) <= cdf(x2)), for every weights vector the
\* function accepts (stated here for weights whose sum is not zero).
C22_CdfMonotone ==
    (cpc = "done" /\ SumSeq(cdf_weights) # 0) =>
        \A i, j \in DOMAIN cdf_x :
            cdf_x[i] <= cdf_x[j] =>
                (/\ FIsFinite(cdf[i]) /\ FIsFinite(cdf[j])
                 /\ ~FLess[cdf[j], cdf[i]])

----------------------------------------------------------------------------
(* projected_samples_mixture_sorted for one direction: the sizes come from  *)
(* sizes_from_weights(n_interpolation_samples, weights_per_cluster), whose  *)
(* statements are the actions above with size = n_interpolation_samples.    *)
(* The values of the samples are random and are not modelled; their number  *)
(* of rows, the permutation th.sort leaves, the indices and the weights     *)
(* are.                                                                     *)

MaxInterp == 3
MaxGrid == 9
MaxPsmsClusters == 3

PsmsWeightVals == {0, 1, 2}

PsmsWeights ==
    {ws \in SeqsOf(PsmsWeightVals, 1, MaxPsmsClusters) : SumSeq(ws) > 0}

\* get_weights_per_sample(weights_per_cluster, sizes), from cluster i_cluster on
RECURSIVE GetWeightsPerSampleFrom(_, _, _)
GetWeightsPerSampleFrom(wpc, sizes, i_cluster) ==
    IF i_cluster > Len(sizes) THEN <<>>
    ELSE LET weight == wpc[i_cluster]
             new_weight == IF FLess[FZero, weight]
                           THEN FDiv[Float32, weight, weight]
                           ELSE weight
         IN [k \in 1..sizes[i_cluster] |-> new_weight]
            \o GetWeightsPerSampleFrom(wpc, sizes, i_cluster + 1)

GetWeightsPerSample(wpc, sizes) == GetWeightsPerSampleFrom(wpc, sizes, 1)

\* offset_x_in_input, a Python float, n_sorted_samples being
\* len(sorted_cluster_samples)
OffsetXInInput(n_sorted_samples, n) ==
    FAdd[Float64, FNeg[FHalf],
         FMul[Float64, FHalf,
              FDiv[Float64, FInt[Float64, n_sorted_samples], FInt[Float64, n]]]]

\* The float32 formula of th.linspace differs between the builds of torch:
\* start + i * (end - start) / (steps - 1), start + i * step, or the latter
\* for the first half and end - (steps - 1 - i) * step for the second.
LinspaceFormulas == {"quotient", "step", "symmetric"}

\* th.linspace(start, end, steps)[i] by one formula, a and b being start and
\* end as float32 and steps > 1
LinspaceAt[formula \in LinspaceFormulas, a \in Float, b \in Float, steps \in Nat, i \in Nat] ==
    IF formula = "quotient"
    THEN FAdd[Float32, a,
              FDiv[Float32, FMul[Float32, FInt[Float32, i], FSub[Float32, b, a]],
                   FInt[Float32, steps - 1]]]
    ELSE IF formula = "step" \/ i < steps \div 2
    THEN FAdd[Float32, a,
              FMul[Float32, FInt[Float32, i],
                   FDiv[Float32, FSub[Float32, b, a], FInt[Float32, steps - 1]]]]
    ELSE FSub[Float32, b,
              FMul[Float32, FInt[Float32, steps - 1 - i],
                   FDiv[Float32, FSub[Float32, b, a], FInt[Float32, steps - 1]]]]

\* th.linspace(start, end, steps), start and end being Python floats
Linspace32(formula, start, end, steps) ==
    [k \in 1..steps |->
        IF steps = 1 THEN FCast[Float32, start]
        ELSE LinspaceAt[formula, FCast[Float32, start], FCast[Float32, end],
                        steps, k - 1]]

\* x_grid; the concatenation makes TLC keep the values of the entries
XGrid(formula, n_sorted_samples, n) ==
    <<>> \o Linspace32(formula, OffsetXInInput(n_sorted_samples, n),
                       FSub[Float64, FInt[Float64, n_sorted_samples - 1],
                            OffsetXInInput(n_sorted_samples, n)], n)

\* a clamp of i_high at n_interpolation_samples
ClampIHighAtLen(v, n_interpolation_samples) == Min(v, n_interpolation_samples)

\* th.clamp(i_high, max=n_interpolation_samples-1)
ClampIHigh(v, n_interpolation_samples) == Min(v, n_interpolation_samples - 1)

\* t[i] of a tensor of n rows can be read
IndexOk(i, n) == -n <= i /\ i < n

\* t[i], a negative i counting from the end
AtIndex(t, i) == IF i < 0 THEN t[Len(t) + i + 1] ELSE t[i + 1]

InitPsms ==
    /\ size \in 1..MaxInterp /\ weights \in PsmsWeights /\ dtype = Float32
    /\ spc = "called"
    /\ fractional_sizes = <<>> /\ rounded = <<>> /\ diff_with_half = <<>>
    /\ n_total = 0 /\ n_iter = 0
    /\ sfw_exc = "none"
    /\ ppc = "called"
    /\ p_n_samples \in 1..MaxGrid
    /\ linspace_formula \in LinspaceFormulas
    /\ backprop_to_cluster_weights \in BOOLEAN
    /\ weights_per_sample = <<>> /\ i_low = <<>> /\ i_high = <<>>
    /\ weights_high = <<>> /\ p_exc = "none"
    /\ RevIdle /\ BatchIdle /\ TrainIdle /\ RestIdle /\ UnlIdle /\ CdfIdle
    /\ EnergyIdle

\* sizes_from_weights raised: so does projected_samples_mixture_sorted
PsmsSizesRaised ==
    /\ ppc = "called"
    /\ spc = "raised"
    /\ ppc' = "raised"
    /\ p_exc' = sfw_exc
    /\ UNCHANGED <<p_n_samples, linspace_formula, backprop_to_cluster_weights, weights_per_sample,
                   i_low, i_high, weights_high,
                   revVars, sfwVars, batchVars, trainVars, restVars, unlVars,
                   cdfVars, energyVars>>

\* from the return of sizes_from_weights to the sort of the samples
PsmsWeightsPerSample ==
    /\ ppc = "called"
    /\ spc = "done"
    /\ weights_per_sample' =
         IF backprop_to_cluster_weights
         THEN GetWeightsPerSample(NormedWeights(weights), rounded)
         ELSE <<>>
    /\ ppc' = "sampled"
    /\ UNCHANGED <<p_n_samples, linspace_formula, backprop_to_cluster_weights,
                   i_low, i_high, weights_high, p_exc,
                   revVars, sfwVars, batchVars, trainVars, restVars, unlVars,
                   cdfVars, energyVars>>

\* from th.sort to the return: sort_inds is the permutation of the sort
PsmsInterpolate ==
    /\ ppc = "sampled"
    /\ \E x_grid \in {XGrid(linspace_formula, SumSeq(rounded), p_n_samples)} :
         /\ i_low' = [k \in DOMAIN x_grid |-> Max(FFloor[x_grid[k]], 0)]
         /\ i_high' = [k \in DOMAIN x_grid |-> ClampIHigh(FCeil[x_grid[k]], size)]
         /\ weights_high' =
              [k \in DOMAIN x_grid |->
                  FSub[Float32, x_grid[k], FInt[Float32, FFloor[x_grid[k]]]]]
    /\ IF \E k \in DOMAIN i_low' :
              \/ ~IndexOk(i_low'[k], SumSeq(rounded))
              \/ ~IndexOk(i_high'[k], SumSeq(rounded))
       THEN /\ ppc' = "raised" /\ p_exc' = "IndexError"
            /\ UNCHANGED weights_per_sample
       ELSE /\ ppc' = "done" /\ UNCHANGED p_exc
            /\ IF backprop_to_cluster_weights
               THEN \E sorted_weights \in
                        {[j \in DOMAIN weights_per_sample |->
                             weights_per_sample[sort_inds[j] + 1]] :
                         sort_inds \in Perms(Len(weights_per_sample))} :
                      weights_per_sample' =
                          [k \in DOMAIN i_low' |->
                              FAdd[Float32,
                                   FMul[Float32,
                                        AtIndex(sorted_weights, i_low'[k]),
                                        FSub[Float32, FOne, weights_high'[k]]],
                                   FMul[Float32,
                                        AtIndex(sorted_weights, i_high'[k]),
                                        weights_high'[k]]]]
               ELSE weights_per_sample' = <<>>
    /\ UNCHANGED <<p_n_samples, linspace_formula, backprop_to_cluster_weights,
                   revVars, sfwVars, batchVars, trainVars, restVars, unlVars,
                   cdfVars, energyVars>>

NextPsms ==
    \/ SfwRound \/ SfwTakeSmaller \/ SfwTakeBigger \/ SfwReturn
    \/ PsmsSizesRaised \/ PsmsWeightsPerSample \/ PsmsInterpolate

SpecPsms == InitPsms /\ [][NextPsms]_vars

----------------------------------------------------------------------------
(* Claims about projected_samples_mixture_sorted *)

\* the call returned, and every index pair satisfies
\* 0 <= i_low <= i_high <= n_interpolation_samples - 1 and
\* i_high - i_low <= 1
IndexPairsInBounds ==
    /\ ppc \in {"done", "raised"} /\ spc = "done" =>
         /\ ppc = "done"
         /\ Len(i_low) = p_n_samples /\ Len(i_high) = p_n_samples
         /\ Len(weights_high) = p_n_samples
         /\ \A k \in 1..p_n_samples :
               /\ 0 <= i_low[k] /\ i_low[k] <= i_high[k]
               /\ i_high[k] <= size - 1
               /\ i_high[k] - i_low[k] <= 1

\* C24 as claimed: interpolation indices stay in bounds. For every
\* n_samples >= 1 and every n_interpolation_samples >= 1 (larger than, equal
\* to, or smaller than n_samples), every index pair satisfies
\* 0 <= i_low <= i_high <= n_interpolation_samples - 1 and
\* i_high - i_low <= 1, every blend weight weights_high lies in [0, 1), and
\* reading the sorted samples at the indices raises nothing.
C24_IndicesInBounds ==
    /\ IndexPairsInBounds
    /\ ppc = "done" =>
         \A k \in 1..p_n_samples :
             /\ ~FLess[weights_high[k], FZero]
             /\ FLess[weights_high[k], FOne]

\* C24 amended: the index pairs are in bounds as claimed and reading at them
\* raises nothing; every blend weight weights_high lies in [0, 1], and it is
\* 1 only where the float32 grid point is below 0 by less than the float32
\* spacing at 1, where i_low = i_high = 0.
C24_IndicesInBoundsWeightClosed ==
    /\ IndexPairsInBounds
    /\ ppc = "done" =>
         \A k \in 1..p_n_samples :
             /\ ~FLess[weights_high[k], FZero]
             /\ ~FLess[FOne, weights_high[k]]
             /\ weights_high[k] = FOne => (i_low[k] = 0 /\ i_high[k] = 0)

\* more grid points than virtual samples: the first grid point lies below
\* index 0 and was clamped, the last one above the last index, and one grid
\* point has the blend weight 1
C24_Witness ==
    /\ ppc = "done"
    /\ p_n_samples > size
    /\ size >= 2
    /\ i_low[1] = 0 /\ i_high[1] = 0
    /\ FLess[FHalf, weights_high[1]]
    /\ i_low[p_n_samples] = size - 1 /\ i_high[p_n_samples] = size - 1
    /\ \E k \in 1..p_n_samples : weights_high[k] = FOne

\* C27: per-sample mixture weights are all one. For every weights vector
\* with entries >= 0 and positive sum, a cluster of weight 0 gets size 0
\* from sizes_from_weights, and get_weights_per_sample(weights /
\* sum(weights), sizes) returns a vector of length sum(sizes) whose every
\* entry is exactly 1.
C27_WeightsAllOne ==
    /\ spc = "done" =>
         \A i \in DOMAIN weights : weights[i] = 0 => rounded[i] = 0
    /\ (ppc = "sampled" /\ backprop_to_cluster_weights) =>
         /\ Len(weights_per_sample) = SumSeq(rounded)
         /\ Len(weights_per_sample) = size
         /\ \A k \in DOMAIN weights_per_sample : weights_per_sample[k] = FOne

\* get_weights_per_sample has returned for sizes that needed a correction
\* and weights with a cluster of weight 0
C27_Witness ==
    /\ ppc = "sampled" /\ backprop_to_cluster_weights
    /\ \E i \in DOMAIN weights : weights[i] = 0
    /\ n_iter > 0
    /\ Len(weights_per_sample) >= 2

----------------------------------------------------------------------------
(* sampled_energy_transport_loss for one direction.  The values of the      *)
(* samples are random and are not modelled; the numbers of rows of the      *)
(* tensors it subtracts are.  Its two calls of                              *)
(* projected_samples_mixture_sorted are the actions above.  The tensors of  *)
(* normalize_by_stds have the rows of the samples they divide, and          *)
(* abs_or_square changes no shape.                                          *)

MaxEnergyBatch == 5

EnergyWeights == {ws \in SeqsOf(PsmsWeightVals, 1, 2) : SumSeq(ws) > 0}

\* the rows of the two tensors of th.chunk(t, 2) for a t of n >= 2 rows
ChunkRows(n) == <<(n + 1) \div 2, n - ((n + 1) \div 2)>>

\* a tensor of a rows and one of b rows can be subtracted, added, multiplied
BroadcastRows(a, b) == a = b \/ a = 1 \/ b = 1

InitEnergy ==
    /\ epc = "called"
    /\ n_projected \in 2..MaxEnergyBatch
    /\ weights \in EnergyWeights
    /\ backprop_to_cluster_weights \in BOOLEAN
    /\ rows_a = 0 /\ rows_b = 0 /\ rows_cluster_a = 0 /\ rows_cluster_b = 0
    /\ diff_weights_a = <<>> /\ diff_weights_b = <<>> /\ e_exc = "none"
    /\ spc = "idle" /\ size = 0 /\ dtype = Float32
    /\ fractional_sizes = <<>> /\ rounded = <<>> /\ diff_with_half = <<>>
    /\ n_total = 0 /\ n_iter = 0
    /\ sfw_exc = "none"
    /\ ppc = "idle" /\ p_n_samples = 0
    /\ linspace_formula \in LinspaceFormulas
    /\ weights_per_sample = <<>> /\ i_low = <<>> /\ i_high = <<>>
    /\ weights_high = <<>> /\ p_exc = "none"
    /\ RevIdle /\ BatchIdle /\ TrainIdle /\ RestIdle /\ UnlIdle /\ CdfIdle

\* the permutation, the chunk, the sorts, and the first call of
\* projected_samples_mixture_sorted
EnergySplit ==
    /\ epc = "called"
    /\ rows_a' = ChunkRows(n_projected)[1]
    /\ rows_b' = ChunkRows(n_projected)[2]
    /\ size' = rows_a' /\ p_n_samples' = rows_a'
    /\ spc' = "called" /\ ppc' = "called"
    /\ epc' = "mixture_a"
    /\ UNCHANGED <<n_projected, rows_cluster_a, rows_cluster_b,
                   diff_weights_a, diff_weights_b, e_exc,
                   dtype, weights, fractional_sizes, rounded, diff_with_half,
                   n_total, n_iter, sfw_exc,
                   linspace_formula, backprop_to_cluster_weights,
                   weights_per_sample, i_low, i_high, weights_high, p_exc,
                   revVars, batchVars, trainVars, restVars, unlVars, cdfVars>>

\* the first call has returned; the second call, with n_samples =
\* len(sorted_samples_b) and n_interpolation_samples = len(sorted_samples_a)
EnergyMixtureA ==
    /\ epc = "mixture_a"
    /\ ppc = "done"
    /\ rows_cluster_a' = Len(i_low)
    /\ diff_weights_a' = weights_per_sample
    /\ size' = rows_a /\ p_n_samples' = rows_b
    /\ spc' = "called" /\ ppc' = "called"
    /\ fractional_sizes' = <<>> /\ rounded' = <<>> /\ diff_with_half' = <<>>
    /\ n_total' = 0 /\ n_iter' = 0
    /\ weights_per_sample' = <<>> /\ i_low' = <<>> /\ i_high' = <<>>
    /\ weights_high' = <<>>
    /\ epc' = "mixture_b"
    /\ UNCHANGED <<n_projected, rows_a, rows_b, rows_cluster_b, diff_weights_b,
                   e_exc, dtype, weights, sfw_exc,
                   linspace_formula, backprop_to_cluster_weights, p_exc,
                   revVars, batchVars, trainVars, restVars, unlVars, cdfVars>>

\* the second call has returned
EnergyMixtureB ==
    /\ epc = "mixture_b"
    /\ ppc = "done"
    /\ rows_cluster_b' = Len(i_low)
    /\ diff_weights_b' = weights_per_sample
    /\ epc' = "diffs"
    /\ UNCHANGED <<n_projected, rows_a, rows_b, rows_cluster_a, diff_weights_a,
                   e_exc, sfwVars, psmsVars,
                   revVars, batchVars, trainVars, restVars, unlVars, cdfVars>>

\* a call of projected_samples_mixture_sorted raised
EnergyMixtureRaised ==
    /\ epc \in {"mixture_a", "mixture_b"}
    /\ ppc = "raised"
    /\ epc' = "raised"
    /\ e_exc' = p_exc
    /\ UNCHANGED <<n_projected, rows_a, rows_b, rows_cluster_a, rows_cluster_b,
                   diff_weights_a, diff_weights_b, sfwVars, psmsVars,
                   revVars, batchVars, trainVars, restVars, unlVars, cdfVars>>

\* the three differences, their means and the loss
EnergyDiffs ==
    /\ epc = "diffs"
    /\ IF /\ BroadcastRows(rows_a, rows_cluster_a)
          /\ BroadcastRows(rows_a, rows_b)
          /\ BroadcastRows(rows_cluster_a, rows_cluster_b)
          /\ backprop_to_cluster_weights =>
                BroadcastRows(Len(diff_weights_a), Len(diff_weights_b))
       THEN epc' = "done" /\ UNCHANGED e_exc
       ELSE epc' = "raised" /\ e_exc' = "RuntimeError"
    /\ UNCHANGED <<n_projected, rows_a, rows_b, rows_cluster_a, rows_cluster_b,
                   diff_weights_a, diff_weights_b, sfwVars, psmsVars,
                   revVars, batchVars, trainVars, restVars, unlVars, cdfVars>>

NextEnergy ==
    \/ EnergySplit \/ EnergyMixtureA \/ EnergyMixtureB \/ EnergyMixtureRaised
    \/ EnergyDiffs
    \/ SfwRound \/ SfwTakeSmaller \/ SfwTakeBigger \/ SfwReturn
    \/ PsmsSizesRaised \/ PsmsWeightsPerSample \/ PsmsInterpolate

SpecEnergy == InitEnergy /\ [][NextEnergy]_vars

----------------------------------------------------------------------------
(* Claims about sampled_energy_transport_loss *)

\* C25: the halves match. For every batch size n >= 2, odd or even, the two
\* batch halves and the two virtual mixture samples all have the same number
\* of rows, so the three terms of the loss are each computed over equally
\* long sorted sequences, and none of the differences raises.
C25_HalvesMatch ==
    /\ epc # "called" => rows_a = rows_b
    /\ epc \in {"diffs", "done"} =>
          rows_cluster_a = rows_a /\ rows_cluster_b = rows_b
    /\ e_exc # "RuntimeError"

====
